---- MODULE Spec2Model ----
(***************************************************************************)
(* Model of the BlueZ sample application: the device registry              *)
(* (DeviceManager), the bus listener (ObjectManagerProxy), the per-device  *)
(* object (Device / DeviceProxy), the device-class filter and the SPP      *)
(* connection channel (SPPHandler).                                        *)
(*                                                                         *)
(* Strings whose contents the code inspects (bus paths, interface names,   *)
(* MAC identities) are tuples of one-character strings, so that find,      *)
(* substr and replace are computed as the code computes them.              *)
(*                                                                         *)
(* Every call on a standard container (queue push/pop, map at/find/erase)  *)
(* is one atomic step of the model.                                        *)
(***************************************************************************)
EXTENDS Integers, Sequences, FiniteSets, TLC

VARIABLES
  \* ---- DeviceManager ----
  m_deviceQueue,     \* std::queue<DeviceStruct>
  m_devicesMap,      \* std::map<std::string, std::shared_ptr<Device>>
  dmRunning,         \* DeviceManager::m_running
  dmPc,              \* position of DeviceManager::RunEventLoop
  dmLock,            \* TRUE while RunEventLoop's unique_lock owns m_deviceManagerMutex
  dmCur,             \* RunEventLoop's local devicePath: the DeviceStruct popped last
  dmLog,             \* which line the DeviceManager logged last
  nextId,            \* number of Device objects constructed so far
  \* ---- ObjectManagerProxy ----
  m_interface_added_queue,
  omRunning,         \* ObjectManagerProxy::m_running
  omPc,              \* position of ObjectManagerProxy::RunEventLoop
  omCur,             \* the InterfaceAddedStruct popped by the listener thread
  omRegistered,      \* registerProxy() done and unregisterProxy() not yet
  \* ---- process ----
  appPc,             \* position of Application teardown
  terminated,        \* std::terminate was called (an exception left a thread)
  budget,            \* bus signals and client calls still to come
  \* ---- what an observer of the registry writes down ----
  observe,           \* TRUE in the specifications that keep the records below
  enqHist,           \* the requests DeviceAdded has pushed, in order
  deqHist,           \* the requests RunEventLoop has popped, in order
  getResult,         \* what the last GetDevice returned
  sweepLog,          \* RemoveDevices: one entry per turn of its loop
  sigLog,            \* the object-added and object-removed signals delivered
  \* ---- the registry statement by statement ----
  lkPc,              \* where each thread that calls the registry or the
                     \* device stands
  lkOwner,           \* the thread that holds m_deviceManagerMutex
  devOwner,          \* the thread that holds m_deviceMutex of the device
  mtxOwner,          \* the threads that hold m_obj_manager_mutex and
                     \* m_sppMutex
  \* ---- device-class filter, as a function ----
  vcClass, vcResult,
  \* ---- Device / DeviceProxy ----
  busReachable,      \* the bus object answers calls
  busProps,          \* the property values held by the bus object
  m_properties,      \* Device::m_properties, the property cache
  opLog,             \* what the last Device operation did: bus calls, log lines
  devBudget,         \* bus-side changes and client operations still to come
  \* ---- SPPHandler ----
  m_readRunning, m_writeRunning,
  rdPc, wrPc, dtPc,  \* positions of ReadBuffer, WriteBuffer and ~SPPHandler
  pipeOk,            \* pipe(m_pipeCtrl) succeeded
  pipeBytes,         \* bytes written to the cancellation pipe and not read
  pipeReg,           \* the pipe's read end is registered with the epoll set
  pipeEvt,           \* an edge-triggered pipe event is in the epoll ready list
  sock,              \* readiness of the data descriptor
  count,             \* the payloads WriteBuffer has written in the run
  ping,              \* WriteBuffer's count as the 64 bits it has, the tag of
                     \* the payload written last and what write() returned
  pipeOpen, fdOpen,  \* descriptors not yet closed
  closed,            \* close() calls made on the data descriptor and the pipe
  sppBudget,         \* peer events still to come
  \* ---- ProfileProxy ----
  m_spp              \* whether ProfileProxy::m_spp holds a channel, the
                     \* channel NewConnection has constructed and not yet
                     \* assigned, and the calls and replacements so far

regVars == <<m_deviceQueue, m_devicesMap, dmRunning, dmPc, dmLock, dmCur, dmLog,
             nextId,
             m_interface_added_queue, omRunning, omPc, omCur, omRegistered,
             appPc, terminated, budget,
             observe, enqHist, deqHist, getResult, sweepLog, sigLog,
             lkPc, lkOwner, devOwner, mtxOwner, m_spp>>
lkVars == <<lkPc, lkOwner, devOwner, mtxOwner>>
obsVars == <<observe, enqHist, deqHist, getResult, sweepLog>>
clsVars == <<vcClass, vcResult>>
devVars == <<busReachable, busProps, m_properties, opLog, devBudget>>
sppVars == <<m_readRunning, m_writeRunning, rdPc, wrPc, dtPc, pipeOk, pipeBytes,
             pipeReg, pipeEvt, sock, count, ping, pipeOpen, fdOpen, closed,
             sppBudget>>
vars == <<regVars, clsVars, devVars, sppVars>>

----------------------------------------------------------------------------
(* Bounds *)
MaxSignals == 2      \* bus signals and client calls in one run of the registry
MaxQueue == 2        \* entries waiting in either queue
MaxMajorByte == 255  \* bits 8-15 of the class values run through the filter
MaxDeviceOps == 2     \* operations, callbacks and signals on one device
MaxPeerEvents == 2    \* things the peer and the kernel do to one channel
MaxWrites == 2        \* payloads the writer sends in one run
MaxConnections == 2   \* NewConnection calls on one profile

----------------------------------------------------------------------------
(* Strings *)

\* std::string::find: the first position (1-based) of t in s, 0 for npos
Find(s, t) ==
  LET hits == {i \in 1..(Len(s) - Len(t) + 1) : SubSeq(s, i, i + Len(t) - 1) = t}
  IN  IF hits = {} THEN 0 ELSE CHOOSE i \in hits : \A j \in hits : i <= j

\* std::replace(begin, end, from, to)
Replace(s, from, to) == [i \in 1..Len(s) |-> IF s[i] = from THEN to ELSE s[i]]

toFind == <<"d", "e", "v", "_">>

\* (a derivation that forgets the npos test)
GetMACFromPathNoMarkerTest(path) == Replace(path, "_", ":")

\* DeviceManager::GetMACFromPath
GetMACFromPath(path) ==
  LET pos == Find(path, toFind)
  IN  IF pos = 0
      THEN <<>>
      ELSE Replace(SubSeq(path, pos + Len(toFind), Len(path)), "_", ":")

DEVICE_INTERFACE ==
  <<"o", "r", "g", ".", "b", "l", "u", "e", "z", ".", "D", "e", "v", "i", "c", "e", "1">>
BATTERY_INTERFACE ==
  <<"o", "r", "g", ".", "b", "l", "u", "e", "z", ".", "B", "a", "t", "1">>

\* Bus object paths of the model: two paths of one device (seen through two
\* adapters), another device, an adapter (no marker), the marker with no suffix
PathA0 == <<"/", "h", "0", "/", "d", "e", "v", "_", "A", "_", "1">>
PathA1 == <<"/", "h", "1", "/", "d", "e", "v", "_", "A", "_", "1">>
PathB0 == <<"/", "h", "0", "/", "d", "e", "v", "_", "B", "_", "2">>
PathAdapter == <<"/", "h", "0">>
PathBare == <<"/", "d", "e", "v", "_">>
BusPaths == {PathA0, PathA1, PathB0, PathAdapter}
\* What a client of IDeviceManager can pass: any string
ClientPaths == BusPaths \cup {PathBare, <<>>}
\* Not an object path (no leading slash), with the identity of PathA0
PathNoSlash == <<"d", "e", "v", "_", "A", "_", "1">>
QueuePaths == {PathA0, PathB0, PathNoSlash}
LookupPaths == {PathA0, PathB0, PathBare}
SweepPaths == {PathA0, PathB0}
\* Identities a client can ask for
MacA == <<"A", ":", "1">>
MacB == <<"B", ":", "2">>
QueryMACs == {MacA, MacB, <<>>}

----------------------------------------------------------------------------
(* Device-class filter *)

Phone == 2
AudioVideo == 4
Uncategorized == 31

\* (a decoder whose major field is eight bits wide)
from_uint32_t_wide(value) ==
  [format_byte |-> (value % 4) % 4,
   minor_device_class |-> ((value \div 4) % 64) % 64,
   major_device_class |-> ((value \div 256) % 256) % 256,
   service_class |-> ((value \div 65536) % 2048) % 2048,
   reserved |-> ((value \div 134217728) % 32) % 256]

\* BluetoothDeviceClass::from_uint32_t: each masked value is stored in a
\* bit-field, which keeps it modulo two to the field's width (2, 6, 5, 11, 8)
from_uint32_t(value) ==
  [format_byte |-> (value % 4) % 4,
   minor_device_class |-> ((value \div 4) % 64) % 64,
   major_device_class |-> ((value \div 256) % 256) % 32,
   service_class |-> ((value \div 65536) % 2048) % 2048,
   reserved |-> ((value \div 134217728) % 32) % 256]

\* ObjectManagerProxy::ValidateClass
ValidateClass(device_class) ==
  LET device_class_obj == from_uint32_t(device_class)
  IN  \/ device_class_obj.major_device_class = Phone
      \/ device_class_obj.major_device_class = AudioVideo

\* sdbus::Variant: the type it holds and the value
U32(n) == [type |-> "uint32", value |-> n]
StringVariant == [type |-> "string", value |-> 0]

\* ObjectManagerProxy::GetClass: [threw |-> TRUE] when Variant::get<uint32_t>
\* throws on a Variant of another type
GetClass(interfaces) ==
  LET found == {pr \in interfaces : pr[1] = "Class"}
  IN  IF found = {}
      THEN [threw |-> FALSE, value |-> Uncategorized]
      ELSE LET it == CHOOSE pr \in found : TRUE
           IN  IF it[2].type = "uint32"
               THEN [threw |-> FALSE, value |-> it[2].value]
               ELSE [threw |-> TRUE, value |-> 0]

\* ObjectManagerProxy::GetAndValidateClass
GetAndValidateClass(interfaces) ==
  LET device_class == GetClass(interfaces)
  IN  IF device_class.threw
      THEN [threw |-> TRUE, valid |-> FALSE]
      ELSE [threw |-> FALSE, valid |-> ValidateClass(device_class.value)]

\* Property maps and interface maps carried by InterfacesAdded signals, as
\* sets of <<key, value>> pairs
SignalClasses == {516, 256}   \* 0x000204, 0x000100
PropMaps == {{}} \cup {{<<"Class", U32(c)>>} : c \in SignalClasses}
                 \cup {{<<"Class", StringVariant>>}}
IfaceMaps == {{<<DEVICE_INTERFACE, pm>>} : pm \in PropMaps}
             \cup {{<<BATTERY_INTERFACE, {}>>}}
             \cup {{<<BATTERY_INTERFACE, {}>>, <<DEVICE_INTERFACE, {<<"Class", U32(516)>>}>>}}
IfaceLists == {<<DEVICE_INTERFACE>>, <<BATTERY_INTERFACE>>,
               <<BATTERY_INTERFACE, DEVICE_INTERFACE>>}

----------------------------------------------------------------------------
(* DeviceManager *)

\* std::map::erase(key)
Erase(map, key) == [k \in (DOMAIN map) \ {key} |-> map[k]]

\* m_devicesMap[key] = value
Insert(map, key, value) ==
  [k \in (DOMAIN map) \cup {key} |-> IF k = key THEN value ELSE map[k]]

\* (a lookup that never finds the identity)
NeverRegistered(map, deviceMAC) == FALSE

\* RunEventLoop: m_devicesMap.find(deviceMAC) != m_devicesMap.end()
AlreadyRegistered(map, deviceMAC) == deviceMAC \in DOMAIN map

\* (a handler for sdbus::Error alone)
CatchesSdbusErrorOnly(exception) == exception = "sdbus::Error"

\* DeviceRemoved: catch (const std::exception &e)
DeviceRemovedCatches(exception) ==
  exception \in {"std::out_of_range", "sdbus::Error", "std::system_error"}

\* sdbus::createProxy checks the object path before anything else and throws
\* sdbus::Error on one that is not valid; here: valid paths start with a slash
ConstructionThrows(path) == path = <<>> \/ path[1] # "/"

\* (a queue that takes new elements in at its front)
PushFront(queue, request) == <<request>> \o queue
\* std::queue::push: the element goes in at the back
Push(queue, request) == Append(queue, request)

\* DeviceManager::DeviceAdded: taken only while nobody holds the mutex
DeviceAdded(devicePath, enableLoop) ==
  /\ ~dmLock
  /\ Len(m_deviceQueue) < MaxQueue
  /\ m_deviceQueue' = Push(m_deviceQueue, [path |-> devicePath, enableLoop |-> enableLoop])
  /\ dmLog' = "queued"
  /\ enqHist' = IF observe
                THEN Append(enqHist, [path |-> devicePath, enableLoop |-> enableLoop])
                ELSE enqHist
  /\ UNCHANGED <<m_devicesMap, dmRunning, dmPc, dmLock, dmCur, nextId,
                 observe, deqHist, getResult, sweepLog>>

\* DeviceManager::DeviceRemoved, as the map and the log it leaves and whether
\* an exception reaches the caller.  No mutex is taken.
DeviceRemovedResult(map, devicePath) ==
  LET deviceMAC == GetMACFromPath(devicePath)
  IN  IF deviceMAC \in DOMAIN map
      THEN [map |-> Erase(map, deviceMAC), log |-> "removed",
            raised |-> FALSE]
      ELSE \* m_devicesMap.at(deviceMAC) throws std::out_of_range
           IF DeviceRemovedCatches("std::out_of_range")
           THEN [map |-> map, log |-> "removeError", raised |-> FALSE]
           ELSE [map |-> map, log |-> "removeCall", raised |-> TRUE]

DeviceRemoved(devicePath) ==
  LET r == DeviceRemovedResult(m_devicesMap, devicePath)
  IN  /\ m_devicesMap' = r.map
      /\ dmLog' = r.log
      /\ terminated' = r.raised
      /\ UNCHANGED <<m_deviceQueue, dmRunning, dmPc, dmLock, dmCur, nextId,
                     obsVars>>

\* std::shared_ptr<IDevice> device = nullptr
Null == [id |-> 0, path |-> <<>>, looping |-> FALSE]

\* A lookup with operator[], which inserts a null handle for a missing key
GetDeviceInserting(map, mac) ==
  IF mac \in DOMAIN map
  THEN [map |-> map, device |-> map[mac], raised |-> FALSE]
  ELSE [map |-> Insert(map, mac, Null), device |-> Null, raised |-> FALSE]

\* DeviceManager::GetDevice: m_devicesMap.at(mac) under the mutex;
\* std::out_of_range is caught and the null handle returned
GetDeviceResult(map, mac) ==
  IF mac \in DOMAIN map
  THEN [map |-> map, device |-> map[mac], raised |-> FALSE]
  ELSE [map |-> map, device |-> Null, raised |-> FALSE]

GetDevice(mac) ==
  /\ ~dmLock
  /\ LET r == GetDeviceResult(m_devicesMap, mac)
     IN  /\ m_devicesMap' = r.map
         /\ getResult' = [mac |-> mac, device |-> r.device, raised |-> r.raised]
  /\ UNCHANGED <<m_deviceQueue, dmRunning, dmPc, dmLock, dmCur, dmLog, nextId,
                 observe, enqHist, deqHist, sweepLog>>

\* The calls ObjectManagerProxy::onInterfacesRemoved makes for a list of
\* interface names: DeviceRemoved(std::string(interface)) for each name equal
\* to DEVICE_INTERFACE, until one raises
RECURSIVE RemovedCalls(_, _)
RemovedCalls(r, interfaces) ==
  IF interfaces = <<>> \/ r.raised
  THEN r
  ELSE LET interface == Head(interfaces)
       IN  IF DEVICE_INTERFACE = interface
           THEN RemovedCalls(DeviceRemovedResult(r.map, interface), Tail(interfaces))
           ELSE RemovedCalls(r, Tail(interfaces))

\* (operator[] evaluated before the construction leaves a null entry)
CreateFailedLhsFirst(map, mac) == Insert(map, mac, Null)
\* m_devicesMap[deviceMAC] = std::make_shared<Device>(...) when the
\* construction throws: the right operand is evaluated first, so operator[]
\* has not run and the map has no entry for deviceMAC
CreateFailed(map, mac) == map

\* RunEventLoop, lines 104-113: the loop test, the lock and the wait
DmWake ==
  /\ dmPc = "wait"
  /\ ~dmRunning \/ m_deviceQueue # <<>>
  /\ IF ~dmRunning
     THEN /\ dmPc' = "done"
          /\ dmLog' = "exit"
          /\ UNCHANGED dmLock
     ELSE /\ dmPc' = "drain"
          /\ dmLock' = TRUE
          /\ UNCHANGED dmLog
  /\ UNCHANGED <<m_deviceQueue, m_devicesMap, dmRunning, dmCur, nextId, obsVars>>

\* RunEventLoop, lines 115-146: one turn of the inner loop
DmProcess ==
  /\ dmPc = "drain"
  /\ m_deviceQueue # <<>>
  /\ dmCur' = Head(m_deviceQueue)
  /\ m_deviceQueue' = Tail(m_deviceQueue)
  /\ deqHist' = IF observe THEN Append(deqHist, dmCur') ELSE deqHist
  /\ LET deviceMAC == GetMACFromPath(dmCur'.path)
     IN  IF dmCur'.path = <<>> \/ deviceMAC = <<>>
         THEN /\ dmLog' = "empty"
              /\ UNCHANGED <<m_devicesMap, nextId, dmLock>>
         ELSE IF AlreadyRegistered(m_devicesMap, deviceMAC)
         THEN /\ dmLog' = "exists"
              /\ UNCHANGED <<m_devicesMap, nextId, dmLock>>
         ELSE IF ConstructionThrows(dmCur'.path)
         THEN /\ dmLog' = "createError"
              /\ m_devicesMap' = CreateFailed(m_devicesMap, deviceMAC)
              /\ UNCHANGED <<nextId, dmLock>>
         ELSE /\ m_devicesMap' = Insert(m_devicesMap, deviceMAC,
                                  [id |-> nextId + 1, path |-> dmCur'.path,
                                   looping |-> FALSE])
              /\ nextId' = nextId + 1
              /\ dmLog' = "count"
              /\ dmLock' = FALSE
  /\ UNCHANGED <<dmRunning, dmPc, observe, enqHist, getResult, sweepLog>>

\* (an inner loop that is left whatever the queue holds)
DmDrainedAnyway ==
  /\ dmPc = "drain"
  /\ dmPc' = "wait"
  /\ dmLock' = FALSE
  /\ UNCHANGED <<m_deviceQueue, m_devicesMap, dmRunning, dmCur, dmLog, nextId,
                 obsVars>>
\* RunEventLoop: the inner loop ends, the unique_lock goes out of scope
DmDrained ==
  /\ dmPc = "drain"
  /\ m_deviceQueue = <<>>
  /\ dmPc' = "wait"
  /\ dmLock' = FALSE
  /\ UNCHANGED <<m_deviceQueue, m_devicesMap, dmRunning, dmCur, dmLog, nextId,
                 obsVars>>

----------------------------------------------------------------------------
(* ObjectManagerProxy and the threads that call the registry *)

dmVars == <<m_deviceQueue, m_devicesMap, dmRunning, dmPc, dmLock, dmCur, dmLog,
           nextId, obsVars>>
omVars == <<m_interface_added_queue, omRunning, omPc, omCur, omRegistered>>
otherThanReg == <<clsVars, devVars, sppVars, lkVars, sigLog, m_spp>>
otherThanSig == <<clsVars, devVars, sppVars, lkVars, m_spp>>

NoSignal == [path |-> <<>>, interfacesAndProperties |-> {}]

\* ObjectManagerProxy::onInterfacesAdded, on the bus thread
onInterfacesAdded(objectPath, interfacesAndProperties) ==
  /\ ~terminated /\ appPc = "running" /\ omRegistered
  /\ budget > 0
  /\ Len(m_interface_added_queue) < MaxQueue
  /\ m_interface_added_queue' =
       Append(m_interface_added_queue,
              [path |-> objectPath, interfacesAndProperties |-> interfacesAndProperties])
  /\ budget' = budget - 1
  /\ sigLog' = IF observe
               THEN Append(sigLog, [kind |-> "added", path |-> objectPath,
                                    interfacesAndProperties |-> interfacesAndProperties])
               ELSE sigLog
  /\ UNCHANGED <<dmVars, omRunning, omPc, omCur, omRegistered, appPc, terminated,
                 otherThanSig>>

\* ObjectManagerProxy::onInterfacesRemoved, on the bus thread
onInterfacesRemoved(objectPath, interfaces) ==
  /\ ~terminated /\ appPc = "running" /\ omRegistered
  /\ budget > 0
  /\ LET r == RemovedCalls([map |-> m_devicesMap, log |-> dmLog, raised |-> FALSE],
                           interfaces)
     IN  /\ m_devicesMap' = r.map
         /\ dmLog' = r.log
         /\ terminated' = r.raised
  /\ budget' = budget - 1
  /\ sigLog' = IF observe /\ \E i \in 1..Len(interfaces) : interfaces[i] = DEVICE_INTERFACE
               THEN Append(sigLog, [kind |-> "removed", path |-> objectPath,
                                    interfacesAndProperties |-> {}])
               ELSE sigLog
  /\ UNCHANGED <<m_deviceQueue, dmRunning, dmPc, dmLock, dmCur, nextId, omVars,
                 appPc, obsVars, otherThanSig>>

\* Agent::RequestConfirmation, on the bus thread
RequestConfirmation(path) ==
  /\ ~terminated /\ appPc = "running"
  /\ budget > 0
  /\ DeviceAdded(path, TRUE)
  /\ budget' = budget - 1
  /\ UNCHANGED <<omVars, appPc, terminated, otherThanReg>>

\* ObjectManagerProxy::RunEventLoop, lines 70-81: the loop test, the wait and
\* the pop; the mutex is released before the item is looked at
OmWake ==
  /\ ~terminated
  /\ omPc = "wait"
  /\ ~omRunning \/ m_interface_added_queue # <<>>
  /\ IF ~omRunning
     THEN /\ omPc' = "done"
          /\ UNCHANGED <<m_interface_added_queue, omCur>>
     ELSE /\ omCur' = Head(m_interface_added_queue)
          /\ m_interface_added_queue' = Tail(m_interface_added_queue)
          /\ omPc' = "process"
  /\ UNCHANGED <<dmVars, omRunning, omRegistered, appPc, terminated, budget,
                 otherThanReg>>

\* The Device1 entries of an interface map (a std::map has one entry per key)
DeviceEntries(interfacesAndProperties) ==
  {interface \in interfacesAndProperties : DEVICE_INTERFACE = interface[1]}

\* RunEventLoop, lines 82-91: the popped item has no Device1 entry, or its
\* class is rejected: nothing is called
OmDrop ==
  /\ ~terminated
  /\ omPc = "process"
  /\ \A interface \in DeviceEntries(omCur.interfacesAndProperties) :
        LET c == GetAndValidateClass(interface[2]) IN ~c.threw /\ ~c.valid
  /\ omPc' = "wait"
  /\ omCur' = NoSignal
  /\ UNCHANGED <<dmVars, m_interface_added_queue, omRunning, omRegistered, appPc,
                 terminated, budget, otherThanReg>>

\* RunEventLoop, lines 82-91: the class is accepted: DeviceAdded(path, false)
OmForward ==
  /\ ~terminated
  /\ omPc = "process"
  /\ \E interface \in DeviceEntries(omCur.interfacesAndProperties) :
        LET c == GetAndValidateClass(interface[2]) IN ~c.threw /\ c.valid
  /\ DeviceAdded(omCur.path, FALSE)
  /\ omPc' = "wait"
  /\ omCur' = NoSignal
  /\ UNCHANGED <<m_interface_added_queue, omRunning, omRegistered, appPc,
                 terminated, budget, otherThanReg>>

\* RunEventLoop, lines 82-91: Variant::get throws inside GetClass; nothing in
\* the thread function catches it, so std::terminate ends the process
OmThrow ==
  /\ ~terminated
  /\ omPc = "process"
  /\ \E interface \in DeviceEntries(omCur.interfacesAndProperties) :
        GetAndValidateClass(interface[2]).threw
  /\ omPc' = "terminated"
  /\ terminated' = TRUE
  /\ UNCHANGED <<dmVars, m_interface_added_queue, omRunning, omCur, omRegistered,
                 appPc, budget, otherThanReg>>

\* DeviceManager::RunEventLoop on its thread
DmThread ==
  /\ ~terminated
  /\ DmWake \/ DmProcess \/ DmDrained
  /\ UNCHANGED <<omVars, appPc, terminated, budget, otherThanReg>>

\* A client of IDeviceManager (the menu thread) adds or removes by path
ClientDeviceAdded(path, enableLoop) ==
  /\ ~terminated /\ appPc = "running"
  /\ budget > 0
  /\ DeviceAdded(path, enableLoop)
  /\ budget' = budget - 1
  /\ UNCHANGED <<omVars, appPc, terminated, otherThanReg>>

ClientDeviceRemoved(path) ==
  /\ ~terminated /\ appPc = "running"
  /\ budget > 0
  /\ DeviceRemoved(path)
  /\ budget' = budget - 1
  /\ UNCHANGED <<omVars, appPc, otherThanReg>>

ClientGetDevice(mac) ==
  /\ ~terminated /\ appPc = "running"
  /\ GetDevice(mac)
  /\ UNCHANGED <<omVars, appPc, terminated, budget, otherThanReg>>

----------------------------------------------------------------------------
(* The registry statement by statement: who holds m_deviceManagerMutex and
   who is inside a call on m_deviceQueue or m_devicesMap.  A call on a
   container begins in one step and ends in another; its effect is that of
   the step that ends it. *)

lkFrame ==
  UNCHANGED <<dmRunning, dmPc, dmLock, dmLog, omVars, appPc, terminated,
              obsVars, clsVars, devVars, sppVars, devOwner, mtxOwner, sigLog, m_spp>>

At(thread, pc) == lkPc[thread] = pc

Goto(thread, pc) == lkPc' = [lkPc EXCEPT ![thread] = pc]

\* unique_lock: unlock() when owns_lock(), also in its destructor
Unlocked(thread) == IF lkOwner = thread THEN "none" ELSE lkOwner

\* RunEventLoop: while (m_running)
LkOuter ==
  /\ At("consumer", "outer")
  /\ Goto("consumer", IF dmRunning THEN "lock" ELSE "done")
  /\ UNCHANGED <<m_deviceQueue, m_devicesMap, dmCur, nextId, budget, lkOwner>>
  /\ lkFrame

\* The consumer takes the mutex: std::unique_lock<std::mutex>
\* lock(m_deviceManagerMutex), or the blocked wait waking up
LkLock ==
  /\ \/ At("consumer", "lock")
     \/ At("consumer", "blocked") /\ (~dmRunning \/ m_deviceQueue # <<>>)
  /\ lkOwner = "none"
  /\ lkOwner' = "consumer"
  /\ Goto("consumer", "wait")
  /\ UNCHANGED <<m_deviceQueue, m_devicesMap, dmCur, nextId, budget>>
  /\ lkFrame

\* m_deviceQueueCV.wait(lock, predicate) with the mutex held: through, out
\* of the loop, or blocked with the mutex released
LkWait ==
  /\ At("consumer", "wait")
  /\ IF ~dmRunning
     THEN Goto("consumer", "done") /\ lkOwner' = "none"
     ELSE IF m_deviceQueue # <<>>
     THEN Goto("consumer", "inner") /\ UNCHANGED lkOwner
     ELSE Goto("consumer", "blocked") /\ lkOwner' = "none"
  /\ UNCHANGED <<m_deviceQueue, m_devicesMap, dmCur, nextId, budget>>
  /\ lkFrame

\* while (!m_deviceQueue.empty()), front(), pop(): the calls begin
LkQueueBegin ==
  /\ At("consumer", "inner")
  /\ Goto("consumer", "inQueue")
  /\ UNCHANGED <<m_deviceQueue, m_devicesMap, dmCur, nextId, budget, lkOwner>>
  /\ lkFrame

\* the calls on the queue end: the inner loop is left (and the unique_lock
\* destroyed), or a request is popped and either skipped or looked up
LkQueueEnd ==
  /\ At("consumer", "inQueue")
  /\ IF m_deviceQueue = <<>>
     THEN /\ Goto("consumer", "outer")
          /\ lkOwner' = Unlocked("consumer")
          /\ UNCHANGED <<m_deviceQueue, dmCur>>
     ELSE /\ dmCur' = Head(m_deviceQueue)
          /\ m_deviceQueue' = Tail(m_deviceQueue)
          /\ Goto("consumer",
                  IF dmCur'.path = <<>> \/ GetMACFromPath(dmCur'.path) = <<>>
                  THEN "inner" ELSE "inMap")
          /\ UNCHANGED lkOwner
  /\ UNCHANGED <<m_devicesMap, nextId, budget>>
  /\ lkFrame

\* find() ends: the identity is registered, or std::make_shared<Device>
\* begins
LkMapEnd ==
  /\ At("consumer", "inMap")
  /\ Goto("consumer",
          IF AlreadyRegistered(m_devicesMap, GetMACFromPath(dmCur.path))
          THEN "inner" ELSE "construct")
  /\ UNCHANGED <<m_deviceQueue, m_devicesMap, dmCur, nextId, budget, lkOwner>>
  /\ lkFrame

\* The construction ends.  It has thrown, or DeviceProxy's constructor has
\* read the properties from the bus and the record is inserted; after an
\* insertion lock.unlock() when the lock is owned
LkConstructEnd ==
  /\ At("consumer", "construct")
  /\ LET deviceMAC == GetMACFromPath(dmCur.path)
     IN  IF ConstructionThrows(dmCur.path)
         THEN /\ m_devicesMap' = CreateFailed(m_devicesMap, deviceMAC)
              /\ UNCHANGED <<nextId, lkOwner>>
         ELSE /\ m_devicesMap' = Insert(m_devicesMap, deviceMAC,
                                  [id |-> nextId + 1, path |-> dmCur.path,
                                   looping |-> FALSE])
              /\ nextId' = nextId + 1
              /\ lkOwner' = Unlocked("consumer")
  /\ Goto("consumer", "inner")
  /\ UNCHANGED <<m_deviceQueue, dmCur, budget>>
  /\ lkFrame

\* DeviceAdded: lock_guard taken, push() begins
LkPushBegin ==
  /\ At("producer", "idle")
  /\ budget > 0 /\ Len(m_deviceQueue) < MaxQueue
  /\ lkOwner = "none"
  /\ lkOwner' = "producer"
  /\ Goto("producer", "pushing")
  /\ UNCHANGED <<m_deviceQueue, m_devicesMap, dmCur, nextId, budget>>
  /\ lkFrame

\* DeviceAdded: push() ends, notify_one(), lock_guard released
LkPushEnd(devicePath) ==
  /\ At("producer", "pushing")
  /\ m_deviceQueue' = Push(m_deviceQueue,
                           [path |-> devicePath, enableLoop |-> FALSE])
  /\ budget' = budget - 1
  /\ lkOwner' = "none"
  /\ Goto("producer", "idle")
  /\ UNCHANGED <<m_devicesMap, dmCur, nextId>>
  /\ lkFrame

\* DeviceRemoved: m_devicesMap.at() begins; no mutex is taken
LkRemoveBegin ==
  /\ At("remover", "idle")
  /\ Goto("remover", "inMap")
  /\ UNCHANGED <<m_deviceQueue, m_devicesMap, dmCur, nextId, budget, lkOwner>>
  /\ lkFrame

\* DeviceRemoved: erase() ends, or at() has thrown and the handler logged
LkRemoveEnd(devicePath) ==
  /\ At("remover", "inMap")
  /\ m_devicesMap' = DeviceRemovedResult(m_devicesMap, devicePath).map
  /\ Goto("remover", "idle")
  /\ UNCHANGED <<m_deviceQueue, dmCur, nextId, budget, lkOwner>>
  /\ lkFrame

\* GetDevice: lock_guard taken, at() begins
LkReadBegin ==
  /\ At("reader", "idle")
  /\ lkOwner = "none"
  /\ lkOwner' = "reader"
  /\ Goto("reader", "inMap")
  /\ UNCHANGED <<m_deviceQueue, m_devicesMap, dmCur, nextId, budget>>
  /\ lkFrame

\* GetDevice: at() ends, the handle or null is returned, lock_guard released
LkReadEnd(deviceMAC) ==
  /\ At("reader", "inMap")
  /\ LET r == GetDeviceResult(m_devicesMap, deviceMAC)
     IN  getResult' = [mac |-> deviceMAC, device |-> r.device,
                       raised |-> r.raised]
  /\ lkOwner' = "none"
  /\ Goto("reader", "idle")
  /\ UNCHANGED <<m_deviceQueue, m_devicesMap, dmCur, nextId, budget>>
  /\ UNCHANGED <<dmRunning, dmPc, dmLock, dmLog, omVars, appPc, terminated,
                 observe, enqHist, deqHist, sweepLog, clsVars, devVars, sppVars,
                 devOwner, mtxOwner, sigLog, m_spp>>

----------------------------------------------------------------------------
(* Teardown: Application::~Application, then the members in reverse order of
   declaration: m_objProxy before m_deviceManager *)

\* std::map iterates in key order: character codes and the lexicographic order
Code(c) ==
  CASE c = "1" -> 49 [] c = "2" -> 50 [] c = ":" -> 58 [] c = "A" -> 65
    [] c = "B" -> 66 [] OTHER -> 0

RECURSIVE Less(_, _)
Less(a, b) ==
  IF b = <<>> THEN FALSE
  ELSE IF a = <<>> THEN TRUE
  ELSE IF Code(Head(a)) # Code(Head(b)) THEN Code(Head(a)) < Code(Head(b))
  ELSE Less(Tail(a), Tail(b))

\* m_devicesMap.begin()
Begin(map) == CHOOSE k \in DOMAIN map : \A j \in (DOMAIN map) \ {k} : Less(k, j)

\* ~Application: leaveEventLoop() and the join of the bus thread
AppStop ==
  /\ ~terminated /\ appPc = "running"
  /\ appPc' = "omDtor"
  /\ UNCHANGED <<dmVars, omVars, terminated, budget, otherThanReg>>

\* ~ObjectManagerProxy, lines 27-32
OmDtor ==
  /\ ~terminated /\ appPc = "omDtor"
  /\ omRegistered' = FALSE
  /\ omRunning' = FALSE
  /\ appPc' = "omJoin"
  /\ UNCHANGED <<dmVars, m_interface_added_queue, omPc, omCur, terminated, budget,
                 otherThanReg>>

\* ~ObjectManagerProxy, lines 33-35
OmJoin ==
  /\ ~terminated /\ appPc = "omJoin"
  /\ omPc = "done"
  /\ appPc' = "dmDtor"
  /\ UNCHANGED <<dmVars, omVars, terminated, budget, otherThanReg>>

\* ~DeviceManager, lines 32-36
DmDtor ==
  /\ ~terminated /\ appPc = "dmDtor"
  /\ ~dmLock
  /\ dmRunning' = FALSE
  /\ appPc' = "dmJoin"
  /\ UNCHANGED <<m_deviceQueue, m_devicesMap, dmPc, dmLock, dmCur, dmLog, nextId,
                 obsVars, omVars, terminated, budget, otherThanReg>>

\* (a destructor that does not join the registry thread)
DmJoinDetached ==
  /\ ~terminated /\ appPc = "dmJoin"
  /\ appPc' = "removeDevices"
  /\ UNCHANGED <<dmVars, omVars, terminated, budget, otherThanReg>>
\* ~DeviceManager, lines 37-40
DmJoin ==
  /\ ~terminated /\ appPc = "dmJoin"
  /\ dmPc = "done"
  /\ appPc' = "removeDevices"
  /\ UNCHANGED <<dmVars, omVars, terminated, budget, otherThanReg>>

\* One turn of the loop of RemoveDevices for the record at it.  connected
\* and paired are what GetProperties reads from the bus; thrower is the call
\* that throws sdbus::Error, if one does.  The calls made, in order, up to
\* and including the one that throws.
SweepCalls(connected, paired, thrower) ==
  LET all == <<"GetProperties">>
               \o (IF connected THEN <<"Disconnect">> ELSE <<>>)
               \o (IF paired THEN <<"CancelPairing">> ELSE <<>>)
               \o <<"erase">>
      upTo == IF thrower = "none" THEN Len(all)
              ELSE CHOOSE i \in 1..Len(all) : all[i] = thrower
  IN  SubSeq(all, 1, upTo)

\* The calls of a turn that can throw: the bus calls it makes
SweepThrowers(connected, paired) ==
  {"none", "GetProperties"}
    \cup (IF connected THEN {"Disconnect"} ELSE {})
    \cup (IF paired THEN {"CancelPairing"} ELSE {})

\* DeviceManager::RemoveDevices: one turn of the loop, or its end.  The try
\* block encloses the loop, so a call that throws sdbus::Error leaves the
\* loop for the handler at line 184, which logs and returns.
RemoveDevices ==
  /\ ~terminated /\ appPc = "removeDevices"
  /\ IF DOMAIN m_devicesMap = {}
     THEN /\ appPc' = "done"
          /\ UNCHANGED <<m_devicesMap, dmLog, sweepLog>>
     ELSE \E connected \in BOOLEAN, paired \in BOOLEAN :
          \E thrower \in SweepThrowers(connected, paired) :
            LET it == Begin(m_devicesMap)
                turn == [mac |-> it, Connected |-> connected, Paired |-> paired,
                         calls |-> SweepCalls(connected, paired, thrower),
                         thrower |-> thrower]
            IN  /\ sweepLog' = IF observe THEN Append(sweepLog, turn) ELSE sweepLog
                /\ IF thrower # "none"
                   THEN /\ appPc' = "done"
                        /\ dmLog' = "removeDevicesError"
                        /\ UNCHANGED m_devicesMap
                   ELSE /\ m_devicesMap' = Erase(m_devicesMap, it)
                        /\ UNCHANGED <<appPc, dmLog>>
  /\ UNCHANGED <<m_deviceQueue, dmRunning, dmPc, dmLock, dmCur, nextId, omVars,
                 observe, enqHist, deqHist, getResult, terminated, budget,
                 otherThanReg>>

----------------------------------------------------------------------------
(* Device and DeviceProxy: one device object and the bus object behind it *)

\* DeviceProperties after value-initialisation, m_properties() in the
\* constructor's initialiser list.  Maps are sets of <<key, value>> pairs.
ValueInit ==
  [Address |-> "", AddressType |-> "", Name |-> "", Class |-> 0,
   UUIDs |-> <<>>, Paired |-> FALSE, Connected |-> FALSE, Trusted |-> FALSE,
   Blocked |-> FALSE, Alias |-> "", AdapterPath |-> "",
   LegacyPairing |-> FALSE, ServiceData |-> {}, ServicesResolved |-> FALSE,
   Icon |-> "", ManufacturerData |-> {}]

\* The values a discovered phone has on the bus
BusDefault ==
  [Address |-> "A:1", AddressType |-> "public", Name |-> "phone",
   Class |-> 516, UUIDs |-> <<"1101">>, Paired |-> FALSE,
   Connected |-> FALSE, Trusted |-> TRUE, Blocked |-> TRUE, Alias |-> "phone",
   AdapterPath |-> "/h0", LegacyPairing |-> TRUE,
   ServiceData |-> {<<"1101", "d">>}, ServicesResolved |-> TRUE,
   Icon |-> "phone", ManufacturerData |-> {<<76, "d">>}]

Fields == DOMAIN ValueInit

\* The two values of each field that signals and callbacks carry
Values(field) == {ValueInit[field], BusDefault[field]}

\* value: the value delivered, under the name of the callback it went to;
\* the signal delivered; the snapshot returned
NoOp == [op |-> "none", arg |-> "none", value |-> <<>>, calls |-> <<>>,
         logs |-> <<>>, raised |-> FALSE]

\* The generated Device1_proxy property getter: a Properties.Get call on the
\* bus object, which fails when the object does not answer.
PropertyGet(name) ==
  [calls |-> << <<"Get", name>> >>,
   raised |-> ~busReachable,
   value |-> busProps[name]]

GetConnected == PropertyGet("Connected")

GetPaired == PropertyGet("Paired")

\* The generated Device1_proxy method call: a method call on the bus object,
\* which succeeds or raises sdbus::Error.
MethodCall(name, ok) ==
  [calls |-> << <<"Call", name>> >>, raised |-> ~busReachable \/ ~ok]

\* What the bus object does with a method call that succeeds
BusAfter(name) ==
  CASE name = "Connect" -> [busProps EXCEPT !.Connected = TRUE]
    [] name = "Disconnect" -> [busProps EXCEPT !.Connected = FALSE]
    [] name = "Pair" -> [busProps EXCEPT !.Paired = TRUE]
    [] OTHER -> busProps

\* A client operation of the device returns: what it called and logged
Done(op, calls, logs, raised, bus) ==
  /\ opLog' = [op |-> op, arg |-> "none", value |-> <<>>, calls |-> calls,
               logs |-> logs, raised |-> raised]
  /\ busProps' = bus
  /\ devBudget' = devBudget - 1
  /\ UNCHANGED <<busReachable, m_properties, regVars, clsVars, sppVars>>

ConnectUnguarded ==
  /\ devBudget > 0
  /\ \E ok \in BOOLEAN :
       LET m == MethodCall("Connect", ok)
       IN  Done("Connect", m.calls, <<"Connect">>, m.raised,
                IF m.raised THEN busProps ELSE BusAfter("Connect"))

Connect ==
  /\ devBudget > 0
  /\ \E ok \in BOOLEAN :
       LET g == GetConnected
           m == MethodCall("Connect", ok)
       IN  IF g.raised
             THEN Done("Connect", g.calls, <<"Connect">>, TRUE, busProps)
           ELSE IF g.value
             THEN Done("Connect", g.calls,
                       <<"Connect", "Device is already connected">>, FALSE,
                       busProps)
           ELSE Done("Connect", g.calls \o m.calls, <<"Connect">>, m.raised,
                     IF m.raised THEN busProps ELSE BusAfter("Connect"))

Disconnect ==
  /\ devBudget > 0
  /\ \E ok \in BOOLEAN :
       LET g == GetConnected
           m == MethodCall("Disconnect", ok)
       IN  IF g.raised
             THEN Done("Disconnect", g.calls, <<"Disconnect">>, TRUE, busProps)
           ELSE IF ~g.value
             THEN Done("Disconnect", g.calls,
                       <<"Disconnect", "Device is not connected">>, FALSE,
                       busProps)
           ELSE Done("Disconnect", g.calls \o m.calls, <<"Disconnect">>,
                     m.raised,
                     IF m.raised THEN busProps ELSE BusAfter("Disconnect"))

PairOnCachedFlag ==
  /\ devBudget > 0
  /\ \E ok \in BOOLEAN :
       LET m == MethodCall("Pair", ok)
       IN  IF m_properties.Paired
             THEN Done("Pair", <<>>, <<"Pair", "Device is already paired">>,
                       FALSE, busProps)
           ELSE Done("Pair", m.calls, <<"Pair">>, m.raised,
                     IF m.raised THEN busProps ELSE BusAfter("Pair"))

Pair ==
  /\ devBudget > 0
  /\ \E ok \in BOOLEAN :
       LET g == GetPaired
           m == MethodCall("Pair", ok)
       IN  IF g.raised
             THEN Done("Pair", g.calls, <<"Pair">>, TRUE, busProps)
           ELSE IF g.value
             THEN Done("Pair", g.calls, <<"Pair", "Device is already paired">>,
                       FALSE, busProps)
           ELSE Done("Pair", g.calls \o m.calls, <<"Pair">>, m.raised,
                     IF m.raised THEN busProps ELSE BusAfter("Pair"))

CancelPairing ==
  /\ devBudget > 0
  /\ \E ok \in BOOLEAN :
       LET g == GetPaired
           m == MethodCall("CancelPairing", ok)
       IN  IF g.raised
             THEN Done("CancelPairing", g.calls, <<"CancelPairing">>, TRUE,
                       busProps)
           ELSE IF ~g.value
             THEN Done("CancelPairing", g.calls,
                       <<"CancelPairing", "Device is not paired">>, FALSE,
                       busProps)
           ELSE Done("CancelPairing", g.calls \o m.calls, <<"CancelPairing">>,
                     m.raised,
                     IF m.raised THEN busProps ELSE BusAfter("CancelPairing"))

\* A client operation of the device returns what it called and logged,
\* with the value it returns and the cache it leaves
Return(op, value, calls, logs, raised, cache) ==
  /\ opLog' = [op |-> op, arg |-> op, value |-> value, calls |-> calls,
               logs |-> logs, raised |-> raised]
  /\ m_properties' = cache
  /\ devBudget' = devBudget - 1
  /\ UNCHANGED <<busReachable, busProps, regVars, clsVars, sppVars>>

GetUUIDs == PropertyGet("UUIDs")

\* Device::PrintUUID: the lines logged for the cached list
PrintUUID(uuids) == <<"PrintUUID">> \o uuids

\* Device::ConnectProfile: the read of UUIDs into the cache is outside the
\* try block, the method call inside it
ConnectProfile(uuid) ==
  /\ devBudget > 0
  /\ \E ok \in BOOLEAN :
       LET g == GetUUIDs
           m == MethodCall("ConnectProfile", ok)
       IN  IF g.raised
             THEN Return("ConnectProfile", <<>>, g.calls, <<"ConnectProfile">>,
                         TRUE, m_properties)
           ELSE Return("ConnectProfile", <<>>, g.calls \o m.calls,
                       <<"ConnectProfile">>
                         \o (IF g.value = <<>> THEN <<"Error: UUIDs is empty">>
                             ELSE <<>>)
                         \o PrintUUID(g.value)
                         \o (IF m.raised THEN <<"Error: Couldn't connect UUID">>
                             ELSE <<>>),
                       FALSE,
                       [m_properties EXCEPT !.UUIDs = g.value])

\* Device::DisconnectProfile: the method call, with no handler
DisconnectProfile(uuid) ==
  /\ devBudget > 0
  /\ \E ok \in BOOLEAN :
       LET m == MethodCall("DisconnectProfile", ok)
       IN  Return("DisconnectProfile", <<>>, m.calls, <<"DisconnectProfile">>,
                  m.raised, m_properties)

\* The bus side changes on its own: the peer connects, is paired by another
\* client, or the object goes away or comes back
BusChange ==
  /\ devBudget > 0
  /\ \E r \in BOOLEAN, p \in BOOLEAN, c \in BOOLEAN :
       /\ <<r, p, c>> # <<busReachable, busProps.Paired, busProps.Connected>>
       /\ busReachable' = r
       /\ busProps' = [busProps EXCEPT !.Paired = p, !.Connected = c]
  /\ UNCHANGED <<m_properties, opLog, devBudget, regVars, clsVars, sppVars>>

\* The 16 typed callbacks of IDevice and the cache field each one guards
CallbackField ==
  [AddressChanged |-> "Address", AddressTypeChanged |-> "AddressType",
   NameChanged |-> "Name", IconChanged |-> "Icon", ClassChanged |-> "Class",
   UUIDsChanged |-> "UUIDs", PairedChanged |-> "Paired",
   ConnectedChanged |-> "Connected", TrustedChanged |-> "Trusted",
   BlockedChanged |-> "Blocked", AliasChanged |-> "Alias",
   AdapterChanged |-> "AdapterPath",
   LegacyPairingChanged |-> "LegacyPairing",
   ManufacturerDataChanged |-> "ManufacturerData",
   ServiceDataChanged |-> "ServiceData",
   ServicesResolvedChanged |-> "ServicesResolved"]

Callbacks == DOMAIN CallbackField

\* A callback without the comparison: writes and logs on every delivery
ChangedUnguarded(properties, callback, value) ==
  [properties |-> [properties EXCEPT ![CallbackField[callback]] = value],
   logs |-> <<callback>>]

\* Device::<X>Changed(value): the cache and the lines logged
Changed(properties, callback, value) ==
  IF properties[CallbackField[callback]] # value
    THEN [properties |-> [properties EXCEPT ![CallbackField[callback]] = value],
          logs |-> <<callback>>]
    ELSE [properties |-> properties, logs |-> <<>>]

\* dispatchDeviceCallbacks: the callback run for a property name; the entries
\* of ServiceData and ManufacturerData are lambdas with an empty body
dispatchDeviceCallbacks ==
  [Address |-> "AddressChanged", AddressType |-> "AddressTypeChanged",
   Name |-> "NameChanged", UUIDs |-> "UUIDsChanged",
   Paired |-> "PairedChanged", Connected |-> "ConnectedChanged",
   Trusted |-> "TrustedChanged", Blocked |-> "BlockedChanged",
   Alias |-> "AliasChanged", Adapter |-> "AdapterChanged",
   LegacyPairing |-> "LegacyPairingChanged", ServiceData |-> "empty",
   ServicesResolved |-> "ServicesResolvedChanged", Icon |-> "IconChanged",
   Class |-> "ClassChanged", ManufacturerData |-> "empty"]

\* The keys of a std::map<std::string, ...> in iteration order
KeyOrder ==
  <<"Adapter", "Address", "AddressType", "Alias", "Blocked", "Class",
    "Connected", "Icon", "LegacyPairing", "ManufacturerData", "Name",
    "Paired", "RSSI", "ServiceData", "ServicesResolved", "Trusted", "UUIDs">>

\* (a lookup miss that no handler catches)
MissPropagates(r, name) == [r EXCEPT !.raised = TRUE]
\* onPropertiesChanged, lines 232-235: the std::out_of_range of at() is
\* caught inside the loop and logged
MissCaught(r, name) ==
  [r EXCEPT !.logs = @ \o << <<"Not Available in List", name>> >>]

\* DeviceProxy::onPropertiesChanged from the i-th key on: changed_properties
\* is a set of <<name, value>> pairs with one value per name.  An exception
\* that leaves the loop ends it.
RECURSIVE DispatchFrom(_, _, _)
DispatchFrom(r, changed_properties, i) ==
  IF i > Len(KeyOrder) \/ r.raised THEN r
  ELSE LET name == KeyOrder[i]
           here == {e \in changed_properties : e[1] = name}
       IN  IF here = {} THEN DispatchFrom(r, changed_properties, i + 1)
           ELSE LET value == (CHOOSE e \in here : TRUE)[2]
                    line == <<"onPropertiesChanged", name>>
                IN  IF name \notin DOMAIN dispatchDeviceCallbacks
                      THEN DispatchFrom(
                             MissCaught([r EXCEPT !.logs = @ \o <<line>>], name),
                             changed_properties, i + 1)
                    ELSE IF dispatchDeviceCallbacks[name] = "empty"
                      THEN DispatchFrom([r EXCEPT !.logs = @ \o <<line>>],
                                        changed_properties, i + 1)
                    ELSE LET c == Changed(r.properties,
                                          dispatchDeviceCallbacks[name], value)
                         IN  DispatchFrom(
                               [properties |-> c.properties,
                                logs |-> r.logs \o <<line>> \o c.logs,
                                raised |-> FALSE],
                               changed_properties, i + 1)

\* dispatchDeviceProperties: the field of the snapshot the entry of a
\* property name assigns from the getter of that name; the entries of
\* ServiceData and ManufacturerData are lambdas with an empty body
dispatchDeviceProperties ==
  [Address |-> "Address", AddressType |-> "AddressType", Name |-> "Name",
   UUIDs |-> "UUIDs", Paired |-> "Paired", Connected |-> "Connected",
   Trusted |-> "Trusted", Blocked |-> "Blocked", Alias |-> "Alias",
   Adapter |-> "AdapterPath", LegacyPairing |-> "LegacyPairing",
   ServiceData |-> "empty", ServicesResolved |-> "ServicesResolved",
   Icon |-> "Icon", Class |-> "Class", ManufacturerData |-> "empty"]

\* DeviceProxy::GetProperties from the i-th key on, over a table: the
\* snapshot so far, the bus calls made, and whether a getter has thrown
\* sdbus::Error, which the handler for std::out_of_range does not catch
RECURSIVE GetPropertiesOver(_, _, _)
GetPropertiesOver(table, r, i) ==
  IF i > Len(KeyOrder) \/ r.raised THEN r
  ELSE LET name == KeyOrder[i]
       IN  IF name \notin DOMAIN table \/ table[name] = "empty"
             THEN GetPropertiesOver(table, r, i + 1)
           ELSE LET g == PropertyGet(table[name])
                IN  GetPropertiesOver(table,
                      [properties |-> IF g.raised THEN r.properties
                                      ELSE [r.properties EXCEPT ![table[name]] = g.value],
                       calls |-> r.calls \o << <<"Get", name>> >>,
                       raised |-> g.raised],
                      i + 1)

\* DeviceProxy::GetProperties.  The strings, the list and the maps of the
\* local snapshot start empty; its flags and its class are assigned by
\* their getters before the snapshot can be returned.
ProxyGetProperties ==
  GetPropertiesOver(dispatchDeviceProperties,
                    [properties |-> ValueInit, calls |-> <<>>, raised |-> FALSE],
                    1)

\* Device::GetProperties: the snapshot of the proxy, taken under
\* m_deviceMutex
GetProperties ==
  /\ devBudget > 0
  /\ LET r == ProxyGetProperties
     IN  Return("GetProperties", ("GetProperties" :> r.properties), r.calls,
                <<>>, r.raised, m_properties)

\* The bus thread delivers a PropertiesChanged signal of the device
onPropertiesChanged(changed_properties) ==
  /\ devBudget > 0
  /\ LET r == DispatchFrom([properties |-> m_properties, logs |-> <<>>,
                            raised |-> FALSE],
                           changed_properties, 1)
     IN  /\ m_properties' = r.properties
         /\ opLog' = [op |-> "onPropertiesChanged", arg |-> "signal",
                      value |-> ("signal" :> changed_properties),
                      calls |-> <<>>, logs |-> r.logs, raised |-> r.raised]
  /\ devBudget' = devBudget - 1
  /\ UNCHANGED <<busReachable, busProps, regVars, clsVars, sppVars>>

\* One typed callback of IDevice is invoked with a value
Callback(callback, value) ==
  /\ devBudget > 0
  /\ LET c == Changed(m_properties, callback, value)
     IN  /\ m_properties' = c.properties
         /\ opLog' = [op |-> "callback", arg |-> callback,
                      value |-> (callback :> value),
                      calls |-> <<>>, logs |-> c.logs, raised |-> FALSE]
  /\ devBudget' = devBudget - 1
  /\ UNCHANGED <<busReachable, busProps, regVars, clsVars, sppVars>>

\* Property names a signal can carry, RSSI being one the table does not have
SignalNames == DOMAIN dispatchDeviceCallbacks \cup {"RSSI"}

FieldOf(name) ==
  IF name = "Adapter" THEN "AdapterPath" ELSE name

SignalValues(name) ==
  IF name = "RSSI" THEN {0 - 60} ELSE Values(FieldOf(name))

\* Signals with one property, and signals that carry RSSI besides it
Signals ==
  UNION {{{<<n, v>>} : v \in SignalValues(n)} : n \in SignalNames}
  \cup UNION {{{<<n, v>>, <<"RSSI", 0 - 60>>} : v \in SignalValues(n)} :
                n \in DOMAIN dispatchDeviceCallbacks}

FlagSignals ==
  UNION {{{<<n, v>>} : v \in BOOLEAN} : n \in {"Paired", "Connected"}}

----------------------------------------------------------------------------
(* SPPHandler: one connection channel, its reader, writer and destructor.   *)
(* The writer's write() returns: the reader makes the descriptor            *)
(* non-blocking as its first statement, a second before the writer's        *)
(* second write, and the first write finds an empty send buffer.            *)

sppUnchanged == UNCHANGED <<regVars, clsVars, devVars, closed, ping>>

\* A uint64_t as four 16-bit limbs, the most significant first
Limb == 65536

Zero == <<0, 0, 0, 0>>

max_value == <<Limb - 1, Limb - 1, Limb - 1, Limb - 1>>

\* c + 1 in 64 bits: the carry runs from limb i towards the first
RECURSIVE Carry(_, _)
Carry(c, i) ==
  IF i = 0 THEN c
  ELSE IF c[i] = Limb - 1 THEN Carry([c EXCEPT ![i] = 0], i - 1)
  ELSE [c EXCEPT ![i] = @ + 1]

Incr(c) == Carry(c, 4)

\* (a counter that is not reset: count++ at the maximum gives the maximum
\* as the tag)
TaggedNoReset(c) == [tag |-> c, count |-> Incr(c)]
\* if (count == max_value) count = 0; "Ping " + std::to_string(count++)
Tagged(c) ==
  LET from == IF c = max_value THEN Zero ELSE c
  IN  [tag |-> from, count |-> Incr(from)]

\* WriteBuffer has not written
NoPing == [count |-> Zero, sent |-> FALSE, tag |-> Zero, written |-> TRUE]

\* StartOperations(): both threads exist from here on; WriteBuffer's count
\* is 0
StartOperations ==
  /\ dtPc = "none" /\ rdPc = "none" /\ wrPc = "none"
  /\ rdPc' = "setup" /\ wrPc' = "loop"
  /\ ping' = NoPing
  /\ UNCHANGED <<m_readRunning, m_writeRunning, dtPc, pipeOk, pipeBytes,
                 pipeReg, pipeEvt, sock, count, pipeOpen, fdOpen, sppBudget>>
  /\ UNCHANGED <<regVars, clsVars, devVars, closed>>

\* ReadBuffer up to the loop: epoll_create1 and the two EPOLL_CTL_ADD.  A
\* failure returns; adding the pipe fails when pipe() had failed.  A pipe
\* that holds a byte when it is added is reported ready.
RdSetup ==
  /\ rdPc = "setup"
  /\ \E ok \in (IF pipeOk THEN BOOLEAN ELSE {FALSE}) :
       IF ok THEN /\ rdPc' = "loop"
                  /\ pipeReg' = TRUE
                  /\ pipeEvt' = (pipeBytes > 0)
             ELSE /\ rdPc' = "done"
                  /\ UNCHANGED <<pipeReg, pipeEvt>>
  /\ UNCHANGED <<m_readRunning, m_writeRunning, wrPc, dtPc, pipeOk, pipeBytes,
                 sock, count, pipeOpen, fdOpen, sppBudget>>
  /\ sppUnchanged

\* while (m_readRunning): into epoll_wait, or out of the loop
RdCheck ==
  /\ rdPc = "loop"
  /\ rdPc' = IF m_readRunning THEN "wait" ELSE "done"
  /\ UNCHANGED <<m_readRunning, m_writeRunning, wrPc, dtPc, pipeOk, pipeBytes,
                 pipeReg, pipeEvt, sock, count, pipeOpen, fdOpen, sppBudget>>
  /\ sppUnchanged

\* (a reader that consumes the pipe's event and goes on)
RdPipeEventGoesOn ==
  /\ rdPc = "wait" /\ pipeEvt
  /\ pipeEvt' = FALSE
  /\ rdPc' = "loop"
  /\ UNCHANGED <<m_readRunning, m_writeRunning, wrPc, dtPc, pipeOk, pipeBytes,
                 pipeReg, sock, count, pipeOpen, fdOpen, sppBudget>>
  /\ sppUnchanged
\* epoll_wait returns the pipe's event: the edge is consumed, the flag is
\* cleared, and the check after the for loop breaks out
RdPipeEvent ==
  /\ rdPc = "wait" /\ pipeEvt
  /\ pipeEvt' = FALSE
  /\ m_readRunning' = FALSE
  /\ rdPc' = "done"
  /\ UNCHANGED <<m_writeRunning, wrPc, dtPc, pipeOk, pipeBytes, pipeReg, sock,
                 count, pipeOpen, fdOpen, sppBudget>>
  /\ sppUnchanged

\* (a reader whose failure stops the writer too)
RdDataEventStopsBoth ==
  /\ rdPc = "wait" /\ sock # "none"
  /\ m_readRunning' = IF sock \in {"eof", "err"} THEN FALSE ELSE m_readRunning
  /\ m_writeRunning' = IF sock \in {"eof", "err"} THEN FALSE ELSE m_writeRunning
  /\ sock' = IF sock = "data" THEN "none" ELSE sock
  /\ rdPc' = IF m_readRunning' THEN "loop" ELSE "done"
  /\ UNCHANGED <<wrPc, dtPc, pipeOk, pipeBytes, pipeReg,
                 pipeEvt, count, pipeOpen, fdOpen, sppBudget>>
  /\ sppUnchanged
\* epoll_wait returns the data descriptor's event (level-triggered): bytes
\* are read, or read returns 0 or -1 and the flag is cleared; "hup" is an
\* event without EPOLLIN, which is not read
RdDataEvent ==
  /\ rdPc = "wait" /\ sock # "none"
  /\ m_readRunning' = IF sock \in {"eof", "err"} THEN FALSE ELSE m_readRunning
  /\ sock' = IF sock = "data" THEN "none" ELSE sock
  /\ rdPc' = IF m_readRunning' THEN "loop" ELSE "done"
  /\ UNCHANGED <<m_writeRunning, wrPc, dtPc, pipeOk, pipeBytes, pipeReg,
                 pipeEvt, count, pipeOpen, fdOpen, sppBudget>>
  /\ sppUnchanged

\* epoll_wait returns -1 (a signal interrupted it): continue
RdInterrupted ==
  /\ rdPc = "wait" /\ sppBudget > 0
  /\ sppBudget' = sppBudget - 1
  /\ rdPc' = "loop"
  /\ UNCHANGED <<m_readRunning, m_writeRunning, wrPc, dtPc, pipeOk, pipeBytes,
                 pipeReg, pipeEvt, sock, count, pipeOpen, fdOpen>>
  /\ sppUnchanged

\* while (m_writeRunning)
WrCheck ==
  /\ wrPc = "loop"
  /\ m_writeRunning => count < MaxWrites
  /\ wrPc' = IF m_writeRunning THEN "write" ELSE "done"
  /\ UNCHANGED <<m_readRunning, m_writeRunning, rdPc, dtPc, pipeOk, pipeBytes,
                 pipeReg, pipeEvt, sock, count, pipeOpen, fdOpen, sppBudget>>
  /\ sppUnchanged

\* "Ping " + count++, write(fd, ...): a result of 0 or -1 clears the flag;
\* the check after it breaks out or goes to sleep
WrWrite ==
  /\ wrPc = "write"
  /\ count' = count + 1
  /\ \E written \in BOOLEAN :
       /\ m_writeRunning' = IF written THEN m_writeRunning ELSE FALSE
       /\ wrPc' = IF m_writeRunning' THEN "sleep" ELSE "done"
       /\ ping' = [count |-> Tagged(ping.count).count, sent |-> TRUE,
                   tag |-> Tagged(ping.count).tag, written |-> written]
  /\ UNCHANGED <<m_readRunning, rdPc, dtPc, pipeOk, pipeBytes, pipeReg,
                 pipeEvt, sock, pipeOpen, fdOpen, sppBudget>>
  /\ UNCHANGED <<regVars, clsVars, devVars, closed>>

\* sleep_for(SLEEP_DURATION) returns
WrSleep ==
  /\ wrPc = "sleep"
  /\ wrPc' = "loop"
  /\ UNCHANGED <<m_readRunning, m_writeRunning, rdPc, dtPc, pipeOk, pipeBytes,
                 pipeReg, pipeEvt, sock, count, pipeOpen, fdOpen, sppBudget>>
  /\ sppUnchanged

\* The peer sends bytes, closes, resets the link or hangs up
PeerEvent ==
  /\ sppBudget > 0 /\ fdOpen
  /\ sppBudget' = sppBudget - 1
  /\ \E e \in {"data", "eof", "err", "hup"} : e # sock /\ sock' = e
  /\ UNCHANGED <<m_readRunning, m_writeRunning, rdPc, wrPc, dtPc, pipeOk,
                 pipeBytes, pipeReg, pipeEvt, count, pipeOpen, fdOpen>>
  /\ sppUnchanged

\* ~SPPHandler, first block: both flags cleared under m_sppMutex
DtFlags ==
  /\ dtPc = "none"
  /\ m_readRunning' = FALSE /\ m_writeRunning' = FALSE
  /\ dtPc' = "write"
  /\ UNCHANGED <<rdPc, wrPc, pipeOk, pipeBytes, pipeReg, pipeEvt, sock, count,
                 pipeOpen, fdOpen, sppBudget>>
  /\ sppUnchanged

\* A destructor that does not write to the pipe
DtWriteNothing ==
  /\ dtPc = "write"
  /\ dtPc' = "joinRead"
  /\ UNCHANGED <<m_readRunning, m_writeRunning, rdPc, wrPc, pipeOk, pipeBytes,
                 pipeReg, pipeEvt, sock, count, pipeOpen, fdOpen, sppBudget>>
  /\ sppUnchanged

\* write(m_pipeCtrl[1], "x", 1): fails (logged) when pipe() had failed; the
\* byte raises the edge-triggered event when the read end is registered
DtWrite ==
  /\ dtPc = "write"
  /\ dtPc' = "joinRead"
  /\ pipeBytes' = IF pipeOk THEN pipeBytes + 1 ELSE pipeBytes
  /\ pipeEvt' = IF pipeOk /\ pipeReg THEN TRUE ELSE pipeEvt
  /\ UNCHANGED <<m_readRunning, m_writeRunning, rdPc, wrPc, pipeOk, pipeReg,
                 sock, count, pipeOpen, fdOpen, sppBudget>>
  /\ sppUnchanged

\* CloseThread(m_read_thread): join when joinable
DtJoinRead ==
  /\ dtPc = "joinRead"
  /\ rdPc \in {"none", "done"}
  /\ dtPc' = "joinWrite"
  /\ UNCHANGED <<m_readRunning, m_writeRunning, rdPc, wrPc, pipeOk, pipeBytes,
                 pipeReg, pipeEvt, sock, count, pipeOpen, fdOpen, sppBudget>>
  /\ sppUnchanged

\* (a destructor that does not wait for the writer)
DtJoinWriteDetached ==
  /\ dtPc = "joinWrite"
  /\ dtPc' = "closePipe"
  /\ UNCHANGED <<m_readRunning, m_writeRunning, rdPc, wrPc, pipeOk, pipeBytes,
                 pipeReg, pipeEvt, sock, count, pipeOpen, fdOpen, sppBudget>>
  /\ sppUnchanged
\* CloseThread(m_write_thread)
DtJoinWrite ==
  /\ dtPc = "joinWrite"
  /\ wrPc \in {"none", "done"}
  /\ dtPc' = "closePipe"
  /\ UNCHANGED <<m_readRunning, m_writeRunning, rdPc, wrPc, pipeOk, pipeBytes,
                 pipeReg, pipeEvt, sock, count, pipeOpen, fdOpen, sppBudget>>
  /\ sppUnchanged

\* ClosePipe(): both ends closed when pipe() had set them
ClosePipe ==
  /\ dtPc = "closePipe"
  /\ pipeOpen' = FALSE
  /\ closed' = IF pipeOk THEN [closed EXCEPT !.pipe = @ + 1] ELSE closed
  /\ dtPc' = "closeFd"
  /\ UNCHANGED <<m_readRunning, m_writeRunning, rdPc, wrPc, pipeOk, pipeBytes,
                 pipeReg, pipeEvt, sock, count, fdOpen, sppBudget>>
  /\ UNCHANGED <<regVars, clsVars, devVars, ping>>

\* CloseFD(): close(m_fd.get()); m_fd keeps the number
CloseFD ==
  /\ dtPc = "closeFd"
  /\ fdOpen' = FALSE
  /\ closed' = [closed EXCEPT !.fd = @ + 1]
  /\ dtPc' = "done"
  /\ UNCHANGED <<m_readRunning, m_writeRunning, rdPc, wrPc, pipeOk, pipeBytes,
                 pipeReg, pipeEvt, sock, count, pipeOpen, sppBudget>>
  /\ UNCHANGED <<regVars, clsVars, devVars, ping>>

\* After the body of ~SPPHandler the members are destroyed: m_fd is an
\* sdbus::UnixFd, whose destructor closes the number it holds
DtMembers ==
  /\ dtPc = "done"
  /\ closed' = [closed EXCEPT !.fd = @ + 1]
  /\ dtPc' = "gone"
  /\ UNCHANGED <<m_readRunning, m_writeRunning, rdPc, wrPc, pipeOk, pipeBytes,
                 pipeReg, pipeEvt, sock, count, pipeOpen, fdOpen, sppBudget>>
  /\ UNCHANGED <<regVars, clsVars, devVars, ping>>

ReadBuffer == RdSetup \/ RdCheck \/ RdPipeEvent \/ RdDataEvent

WriteBuffer == WrCheck \/ WrWrite \/ WrSleep

\* The destructor once it has begun
Shutdown ==
  DtWrite \/ DtJoinRead \/ DtJoinWrite \/ ClosePipe \/ CloseFD \/ DtMembers

----------------------------------------------------------------------------
(* Initial states and specifications *)

InitReg ==
  /\ m_deviceQueue = <<>>
  /\ m_devicesMap = [k \in {} |-> 0]
  /\ dmRunning = TRUE
  /\ dmPc = "wait"
  /\ dmLock = FALSE
  /\ dmCur = [path |-> <<>>, enableLoop |-> FALSE]
  /\ dmLog = "none"
  /\ nextId = 0
  /\ m_interface_added_queue = <<>>
  /\ omRunning = TRUE
  /\ omPc = "wait"
  /\ omCur = NoSignal
  /\ omRegistered = TRUE
  /\ appPc = "running"
  /\ terminated = FALSE
  /\ budget = MaxSignals
  /\ lkPc = [consumer |-> "outer", producer |-> "idle", remover |-> "idle",
             reader |-> "idle", bus |-> "idle", client |-> "idle",
             listener |-> "outer", stopper |-> "idle"]
  /\ lkOwner = "none"
  /\ devOwner = "none"
  /\ mtxOwner = [m_obj_manager_mutex |-> "none", m_sppMutex |-> "none"]
  /\ m_spp = [held |-> FALSE, made |-> FALSE, pipeOk |-> FALSE,
              connections |-> 0, replaced |-> 0]
  /\ sigLog = <<>>

\* GetDevice not yet called
NoResult == [mac |-> <<"-">>, device |-> Null, raised |-> FALSE]

Unobserved ==
  /\ observe = FALSE
  /\ enqHist = <<>> /\ deqHist = <<>> /\ getResult = NoResult /\ sweepLog = <<>>

Observed ==
  /\ observe = TRUE
  /\ enqHist = <<>> /\ deqHist = <<>> /\ getResult = NoResult /\ sweepLog = <<>>

IdleCls == vcClass = 0 /\ vcResult = "none"

IdleDev ==
  /\ busReachable = FALSE /\ busProps = BusDefault /\ m_properties = ValueInit
  /\ opLog = NoOp /\ devBudget = 0

IdleSpp ==
  /\ m_readRunning = FALSE /\ m_writeRunning = FALSE
  /\ rdPc = "none" /\ wrPc = "none" /\ dtPc = "none"
  /\ pipeOk = FALSE /\ pipeBytes = 0 /\ pipeReg = FALSE /\ pipeEvt = FALSE
  /\ sock = "none" /\ count = 0 /\ pipeOpen = FALSE /\ fdOpen = FALSE
  /\ closed = [fd |-> 0, pipe |-> 0]
  /\ ping = NoPing
  /\ sppBudget = 0

\* The application as wired: signals from the bus, the listener, the registry
Init == InitReg /\ Unobserved /\ IdleCls /\ IdleDev /\ IdleSpp

Next ==
  \/ \E p \in BusPaths, im \in IfaceMaps : onInterfacesAdded(p, im)
  \/ \E p \in BusPaths, il \in IfaceLists : onInterfacesRemoved(p, il)
  \/ \E p \in BusPaths : RequestConfirmation(p)
  \/ OmWake
  \/ OmDrop
  \/ OmForward
  \/ OmThrow
  \/ DmThread
  \/ AppStop
  \/ OmDtor
  \/ OmJoin
  \/ DmDtor
  \/ DmJoin
  \/ RemoveDevices

Spec == Init /\ [][Next]_vars

\* The registry with a client that calls IDeviceManager directly
NextApi ==
  \/ Next
  \/ \E p \in ClientPaths, l \in BOOLEAN : ClientDeviceAdded(p, l)
  \/ \E p \in ClientPaths : ClientDeviceRemoved(p)

SpecApi == Init /\ [][NextApi]_vars

----------------------------------------------------------------------------
(* Claims about the registry and the listener *)

Range(seq) == {seq[i] : i \in 1..Len(seq)}

\* C1: while an identity is registered, a processed add request for it
\* changes neither the registry nor the number of Devices constructed; a
\* processed request for an identity that is not registered constructs
\* exactly one Device and stores it under that identity, leaving every other
\* record as it was.
C1_OnlyFirstAddCreates ==
  [][(dmPc = "drain" /\ Len(m_deviceQueue') < Len(m_deviceQueue)) =>
       LET request == Head(m_deviceQueue)
           mac == GetMACFromPath(request.path)
       IN  /\ mac \in DOMAIN m_devicesMap =>
                m_devicesMap' = m_devicesMap /\ nextId' = nextId
           /\ (mac \notin DOMAIN m_devicesMap /\ mac # <<>>) =>
                /\ DOMAIN m_devicesMap' = (DOMAIN m_devicesMap) \cup {mac}
                /\ nextId' = nextId + 1
                /\ m_devicesMap'[mac].id = nextId + 1
                /\ m_devicesMap'[mac].path = request.path
                /\ \A k \in DOMAIN m_devicesMap : m_devicesMap'[k] = m_devicesMap[k]]_vars

\* C1 witness: a second request for a registered identity, arriving by
\* another path, has been processed and skipped
C1_Witness ==
  /\ dmLog = "exists"
  /\ nextId = 1
  /\ GetMACFromPath(dmCur.path) \in DOMAIN m_devicesMap
  /\ m_devicesMap[GetMACFromPath(dmCur.path)].path # dmCur.path

\* C2: a path without the marker derives the empty identity, and no record
\* of the registry comes from such a path or sits under the empty identity.
C2_NoMarkerNeverRegistered ==
  /\ \A p \in ClientPaths \cup {DEVICE_INTERFACE} :
        Find(p, toFind) = 0 => GetMACFromPath(p) = <<>>
  /\ <<>> \notin DOMAIN m_devicesMap
  /\ \A k \in DOMAIN m_devicesMap : Find(m_devicesMap[k].path, toFind) # 0

\* C2 witness: an add request with the adapter's path (no marker) has been
\* processed, after a device was registered
C2_Witness ==
  /\ dmLog = "empty"
  /\ dmCur.path = PathAdapter
  /\ DOMAIN m_devicesMap # {}

\* C3: DeviceRemoved for an identity that is not registered, called by a
\* client or by the removal signal handler, raises nothing and leaves the
\* registry map as it was.
C3_RemoveAbsentIsNoOp ==
  [][/\ \A p \in ClientPaths :
          (ClientDeviceRemoved(p) /\ GetMACFromPath(p) \notin DOMAIN m_devicesMap)
            => (m_devicesMap' = m_devicesMap /\ ~terminated')
     /\ \A p \in BusPaths, il \in IfaceLists :
          (onInterfacesRemoved(p, il)
             /\ \A i \in Range(il) : GetMACFromPath(i) \notin DOMAIN m_devicesMap)
            => (m_devicesMap' = m_devicesMap /\ ~terminated')]_vars

\* C3 witness: a removal of an absent identity was logged while another
\* identity is registered
C3_Witness ==
  /\ dmLog = "removeError"
  /\ DOMAIN m_devicesMap # {}
  /\ ~terminated

\* C4, as claimed: after the handler of an object-removed signal for a
\* registered path P whose interface list holds the device interface, the
\* registry no longer holds P's identity.
C4_RemovedSignalErases ==
  [][\A p \in BusPaths, il \in IfaceLists :
       (/\ onInterfacesRemoved(p, il)
        /\ GetMACFromPath(p) \in DOMAIN m_devicesMap
        /\ DEVICE_INTERFACE \in Range(il))
         => GetMACFromPath(p) \notin DOMAIN m_devicesMap']_vars

\* C8, as claimed: when the listener thread has looked at a Device1 entry
\* whose class property is missing or malformed, no add request was queued
\* and no exception left the thread.
C8_BadClassRejectedQuietly ==
  [][(/\ omPc = "process" /\ omPc' # "process"
      /\ \E interface \in DeviceEntries(omCur.interfacesAndProperties) :
            \A pr \in interface[2] : pr[1] = "Class" => pr[2].type # "uint32")
       => (m_deviceQueue' = m_deviceQueue /\ ~terminated')]_vars

----------------------------------------------------------------------------
(* The device-class filter run on class values of every major byte *)

\* Class values: every value of bits 8-15, with the minor and service bits of
\* the classes the application itself is configured with (0x240408, 0x3C0408)
ClassValues ==
  {major * 256 + low + service * 65536 :
     major \in 0..MaxMajorByte, low \in {0, 4, 8}, service \in {0, 36, 60}}

InitClass ==
  /\ vcClass \in ClassValues
  /\ vcResult = "none"

RunValidateClass ==
  /\ vcResult = "none"
  /\ vcResult' = IF ValidateClass(vcClass) THEN "accept" ELSE "reject"
  /\ UNCHANGED <<vcClass, regVars, devVars, sppVars>>

ClassInit == InitClass /\ InitReg /\ Unobserved /\ IdleDev /\ IdleSpp

SpecClass == ClassInit /\ [][RunValidateClass]_vars

\* C7, as claimed: the filter accepts c exactly when bits 8-15 of c are
\* Phone (0x02) or AudioVideo (0x04).
C7_AcceptsByBits8To15 ==
  vcResult # "none" =>
    (vcResult = "accept" <=> (vcClass \div 256) % 256 \in {2, 4})

\* C7, amended: the filter accepts c exactly when bits 8-12 of c, the five
\* bits the major field keeps, are Phone (0x02) or AudioVideo (0x04);
\* 0x000204 is accepted and 0x000100 is rejected.
C7_AcceptsByBits8To12 ==
  vcResult # "none" =>
    /\ vcResult = "accept" <=> (vcClass \div 256) % 32 \in {2, 4}
    /\ vcClass = 516 => vcResult = "accept"
    /\ vcClass = 256 => vcResult = "reject"

\* C7 witness: a class with bits above bit 12 set in its major byte (0x2200)
\* has been run through the filter and accepted
C7_Witness == vcClass = 8704 /\ vcResult = "accept"

----------------------------------------------------------------------------
(* One device: client operations against a bus object that changes *)

\* The constructor leaves the cache value-initialised: m_properties is
\* declared after m_deviceProxy, so m_properties() runs after the proxy's
\* constructor has delivered its snapshot.
InitDevice ==
  /\ busReachable \in BOOLEAN
  /\ busProps \in {[BusDefault EXCEPT !.Paired = p, !.Connected = c] :
                     p \in BOOLEAN, c \in BOOLEAN}
  /\ m_properties = ValueInit
  /\ opLog = NoOp
  /\ devBudget = MaxDeviceOps

NextDevice ==
  \/ Connect
  \/ Disconnect
  \/ Pair
  \/ CancelPairing
  \/ BusChange
  \/ \E s \in FlagSignals : onPropertiesChanged(s)

DeviceInit == InitDevice /\ InitReg /\ Unobserved /\ IdleCls /\ IdleSpp

SpecDevice == DeviceInit /\ [][NextDevice]_vars

Calls(method) == {i \in 1..Len(opLog'.calls) : opLog'.calls[i] = <<"Call", method>>}

Returned(op) == devBudget' < devBudget /\ opLog'.op = op

\* C5, as claimed: Connect() on a device whose connected state is true, and
\* Disconnect() on a device whose connected state is false, issue zero bus
\* calls.
C5_NoBusCallWhenInState ==
  [][/\ (Returned("Connect") /\ busReachable /\ busProps.Connected)
          => opLog'.calls = <<>>
     /\ (Returned("Disconnect") /\ busReachable /\ ~busProps.Connected)
          => opLog'.calls = <<>>]_vars

\* C5, amended: Connect() on a device whose Connected property is true issues
\* no Connect method call, and Disconnect() on a device whose Connected
\* property is false issues no Disconnect method call; the one bus call each
\* makes is the read of the Connected property, and each returns normally
\* and leaves the bus object as it was.
C5_NoMethodCallWhenInState ==
  [][/\ (Returned("Connect") /\ busReachable /\ busProps.Connected)
          => /\ opLog'.calls = << <<"Get", "Connected">> >>
             /\ ~opLog'.raised
             /\ busProps' = busProps
     /\ (Returned("Disconnect") /\ busReachable /\ ~busProps.Connected)
          => /\ opLog'.calls = << <<"Get", "Connected">> >>
             /\ ~opLog'.raised
             /\ busProps' = busProps]_vars

\* C5 witness: Connect() has returned on a connected device after the read
\* of the property alone
C5_Witness ==
  /\ opLog.op = "Connect"
  /\ busReachable /\ busProps.Connected
  /\ opLog.calls = << <<"Get", "Connected">> >>
  /\ opLog.logs = <<"Connect", "Device is already connected">>

----------------------------------------------------------------------------
(* One device: the property cache under callbacks and signals *)

InitCache ==
  /\ busReachable = TRUE
  /\ busProps = BusDefault
  /\ m_properties = ValueInit
  /\ opLog = NoOp
  /\ devBudget = MaxDeviceOps

NextCache ==
  \/ \E cb \in Callbacks : \E v \in Values(CallbackField[cb]) : Callback(cb, v)
  \/ \E s \in Signals : onPropertiesChanged(s)

CacheInit == InitCache /\ InitReg /\ Unobserved /\ IdleCls /\ IdleSpp

SpecCache == CacheInit /\ [][NextCache]_vars

\* C10: a typed callback delivering the value the cache holds leaves the
\* whole cache as it was and logs nothing; one delivering another value
\* writes that field of the cache, and only that field, and logs one line.
C10_EqualValueNoWriteNoLog ==
  [][Returned("callback") =>
       LET field == CallbackField[opLog'.arg]
           value == opLog'.value[opLog'.arg]
       IN  IF m_properties[field] = value
             THEN m_properties' = m_properties /\ opLog'.logs = <<>>
             ELSE /\ m_properties' = [m_properties EXCEPT ![field] = value]
                  /\ opLog'.logs = <<opLog'.arg>>]_vars

\* C10 witness: a callback has delivered, without a log line, a value other
\* than the initial one, which the cache already held
C10_Witness ==
  /\ opLog.op = "callback"
  /\ opLog.logs = <<>>
  /\ opLog.value[opLog.arg] # ValueInit[CallbackField[opLog.arg]]
  /\ m_properties[CallbackField[opLog.arg]] = opLog.value[opLog.arg]

\* The names of a signal that the dispatch table has
Known(s) == {e \in s : e[1] \in DOMAIN dispatchDeviceCallbacks}

\* C29, as claimed: after a property-changed notification, the cache holds,
\* for each of the 16 property names the notification carries, the value it
\* carries.
C29_EveryNameReachesCache ==
  [][Returned("onPropertiesChanged")
       => \A e \in Known(opLog'.value["signal"]) :
             m_properties'[FieldOf(e[1])] = e[2]]_vars

----------------------------------------------------------------------------
(* One connection channel *)

\* SPPHandler(fd): flags set, pipe() done or failed
InitSPP ==
  /\ m_readRunning = TRUE /\ m_writeRunning = TRUE
  /\ rdPc = "none" /\ wrPc = "none" /\ dtPc = "none"
  /\ pipeOk \in BOOLEAN
  /\ pipeBytes = 0 /\ pipeReg = FALSE /\ pipeEvt = FALSE
  /\ sock = "none" /\ count = 0
  /\ pipeOpen = pipeOk /\ fdOpen = TRUE
  /\ closed = [fd |-> 0, pipe |-> 0]
  /\ ping = NoPing
  /\ sppBudget = MaxPeerEvents

NextSPP ==
  \/ StartOperations
  \/ RdSetup
  \/ RdCheck
  \/ RdPipeEvent
  \/ RdDataEvent
  \/ RdInterrupted
  \/ WrCheck
  \/ WrWrite
  \/ WrSleep
  \/ PeerEvent
  \/ DtFlags
  \/ DtWrite
  \/ DtJoinRead
  \/ DtJoinWrite
  \/ ClosePipe
  \/ CloseFD
  \/ DtMembers

\* A thread that can take a step takes one; nothing obliges the owner to
\* start the threads or the shutdown, nor the peer to do anything.
ChannelInit == InitSPP /\ InitReg /\ Unobserved /\ IdleCls /\ IdleDev

SpecSPP ==
  /\ ChannelInit
  /\ [][NextSPP]_vars
  /\ WF_vars(ReadBuffer) /\ WF_vars(WriteBuffer) /\ WF_vars(Shutdown)

\* C9: once the destructor of a channel has begun, the reader and the writer
\* both end and both joins return, whatever the interleaving and with or
\* without any data exchanged.
C9_ShutdownJoinsBoth ==
  (dtPc # "none") ~>
    (/\ rdPc \in {"none", "done"}
     /\ wrPc \in {"none", "done"}
     /\ dtPc \in {"done", "gone"})

\* C9 witness: a shutdown has completed on a channel whose peer did nothing;
\* the reader was in the loop and took the pipe's event
C9_Witness ==
  /\ dtPc = "done" /\ rdPc = "done" /\ wrPc = "done"
  /\ sppBudget = MaxPeerEvents
  /\ pipeReg /\ pipeBytes = 1 /\ ~pipeEvt

----------------------------------------------------------------------------
(* The registry with a client that adds, removes and looks up *)

LookupInit == InitReg /\ Unobserved /\ IdleCls /\ IdleDev /\ IdleSpp

NextLookup ==
  \/ \E p \in LookupPaths : ClientDeviceAdded(p, FALSE)
  \/ \E p \in LookupPaths : ClientDeviceRemoved(p)
  \/ \E mac \in QueryMACs : ClientGetDevice(mac)
  \/ DmThread

SpecLookup == LookupInit /\ [][NextLookup]_vars

\* C13: GetDevice(mac) returns the handle the registry holds for mac when
\* mac is registered and the null handle when it is not; it raises nothing
\* and leaves the registry as it was.
C13_GetDeviceHandleOrNull ==
  [][getResult' # getResult =>
       /\ ~getResult'.raised
       /\ m_devicesMap' = m_devicesMap
       /\ IF getResult'.mac \in DOMAIN m_devicesMap
          THEN getResult'.device = m_devicesMap[getResult'.mac]
          ELSE getResult'.device = Null]_vars

\* C13 witness: a lookup of an identity that is not registered, in a
\* registry that holds another one, has returned the null handle
C13_Witness ==
  /\ getResult.mac \in QueryMACs
  /\ getResult.device = Null
  /\ DOMAIN m_devicesMap # {}
  /\ getResult.mac \notin DOMAIN m_devicesMap

----------------------------------------------------------------------------
(* The registry filled by a client and then torn down, observed *)

TeardownInit == InitReg /\ Observed /\ IdleCls /\ IdleDev /\ IdleSpp

NextTeardown ==
  \/ \E p \in SweepPaths : ClientDeviceAdded(p, FALSE)
  \/ DmThread
  \/ OmWake
  \/ AppStop
  \/ OmDtor
  \/ OmJoin
  \/ DmDtor
  \/ DmJoin
  \/ RemoveDevices

SpecTeardown == TeardownInit /\ [][NextTeardown]_vars

Before(calls, first, second) ==
  \E i \in 1..Len(calls), j \in 1..Len(calls) :
    i < j /\ calls[i] = first /\ calls[j] = second

\* C11, as claimed: in RemoveDevices every record that is connected gets a
\* Disconnect and every record that is paired gets a CancelPairing, both
\* before the record is erased, and when RemoveDevices has returned the
\* registry is empty.
C11_SweepDisconnectsThenEmpties ==
  /\ \A i \in 1..Len(sweepLog) :
       LET turn == sweepLog[i]
       IN  /\ turn.Connected /\ turn.thrower = "none"
                => Before(turn.calls, "Disconnect", "erase")
           /\ turn.Paired /\ turn.thrower = "none"
                => Before(turn.calls, "CancelPairing", "erase")
  /\ appPc = "done" => DOMAIN m_devicesMap = {}

\* C12, as claimed: when a bus call has failed for one record of the sweep,
\* the failure is logged, the records after it are still processed and the
\* registry is empty when RemoveDevices has returned.
C12_FailureDoesNotAbortSweep ==
  \A i \in 1..Len(sweepLog) :
    (sweepLog[i].thrower # "none" /\ appPc = "done") =>
      /\ dmLog = "removeDevicesError"
      /\ Len(sweepLog) = nextId
      /\ DOMAIN m_devicesMap = {}

----------------------------------------------------------------------------
(* The registry statement by statement, with a thread that adds, a thread
   that removes and a thread that looks up *)

LocksInit == InitReg /\ Unobserved /\ IdleCls /\ IdleDev /\ IdleSpp

NextLocks ==
  \/ LkOuter
  \/ LkLock
  \/ LkWait
  \/ LkQueueBegin
  \/ LkQueueEnd
  \/ LkMapEnd
  \/ LkConstructEnd
  \/ LkPushBegin
  \/ \E p \in SweepPaths : LkPushEnd(p)
  \/ LkRemoveBegin
  \/ \E p \in SweepPaths : LkRemoveEnd(p)
  \/ LkReadBegin
  \/ \E mac \in {MacA, MacB} : LkReadEnd(mac)

SpecLocks == LocksInit /\ [][NextLocks]_vars

Threads == {"consumer", "producer", "remover", "reader"}

\* The threads inside a call on m_devicesMap, and on m_deviceQueue
InMap == {t \in Threads : lkPc[t] = "inMap"}

InQueue == {t \in Threads : lkPc[t] \in {"inQueue", "pushing"}}

\* C14, as claimed: a thread that is inside a call on the registry map holds
\* the registry mutex, so no two threads are inside such calls at once.
C14_MapOnlyUnderMutex ==
  /\ \A t \in InMap : lkOwner = t
  /\ Cardinality(InMap) <= 1

\* C15, as claimed: a thread that is inside a call on the add-queue holds
\* the registry mutex, so the consumer is never inside empty(), front() or
\* pop() while a producer is inside push().
C15_QueueOnlyUnderMutex ==
  /\ \A t \in InQueue : lkOwner = t
  /\ Cardinality(InQueue) <= 1

----------------------------------------------------------------------------
(* The add-queue between a client that adds and the consumer thread,
   observed, up to and including the stop of the registry.  The consumer
   thread is scheduled as long as it has a step to take. *)

QueueInit == InitReg /\ Observed /\ IdleCls /\ IdleDev /\ IdleSpp

NextQueue ==
  \/ \E p \in QueuePaths, enableLoop \in BOOLEAN : ClientDeviceAdded(p, enableLoop)
  \/ DmThread
  \/ OmWake
  \/ AppStop
  \/ OmDtor
  \/ OmJoin
  \/ DmDtor
  \/ DmJoin

SpecQueue == QueueInit /\ [][NextQueue]_vars /\ WF_vars(DmThread)

\* C16: the consumer goes back to the wait only with an empty add-queue,
\* and the n-th request enqueued is eventually dequeued unless the registry
\* is stopped.
C16_DrainsBeforeBlocking ==
  /\ [][dmPc = "drain" /\ dmPc' = "wait" => m_deviceQueue' = <<>>]_vars
  /\ \A n \in 1..MaxSignals :
       (Len(enqHist) >= n) ~> (Len(deqHist) >= n \/ ~dmRunning)

\* Two requests were enqueued and the consumer, still running, has dequeued
\* both and waits again with the queue empty
C16_Witness ==
  /\ Len(deqHist) >= 2 /\ Len(enqHist) = Len(deqHist)
  /\ dmPc = "wait" /\ dmRunning /\ m_deviceQueue = <<>>

\* C17: the requests dequeued so far are, in order, the first requests
\* enqueued.
C17_DequeuedInEnqueueOrder ==
  /\ Len(deqHist) <= Len(enqHist)
  /\ deqHist = SubSeq(enqHist, 1, Len(deqHist))

\* Two different requests were enqueued and both have been dequeued
C17_Witness ==
  /\ Len(deqHist) >= 2
  /\ deqHist[1] # deqHist[2]

\* C19: a turn of the consumer whose construction throws logs the error,
\* leaves the registry as it was and without an entry for the identity, and
\* leaves the consumer in its inner loop; and the consumer then goes on
\* until it has dequeued whatever is queued.
C19_FailedCreationIsDropped ==
  /\ [][deqHist' # deqHist /\ ConstructionThrows(dmCur'.path)
        /\ GetMACFromPath(dmCur'.path) \notin DOMAIN m_devicesMap
        /\ GetMACFromPath(dmCur'.path) # <<>>
        => /\ dmLog' = "createError"
           /\ m_devicesMap' = m_devicesMap
           /\ GetMACFromPath(dmCur'.path) \notin DOMAIN m_devicesMap'
           /\ dmPc' = "drain"
           /\ ~terminated']_vars
  /\ (dmLog = "createError") ~> (m_deviceQueue = <<>>)

\* The construction for identity A:1 failed, and a later request for the
\* same identity created the record
C19_Witness ==
  /\ Len(deqHist) >= 2
  /\ deqHist[1].path = PathNoSlash
  /\ GetMACFromPath(PathNoSlash) \in DOMAIN m_devicesMap
  /\ m_devicesMap[GetMACFromPath(PathNoSlash)].path = deqHist[2].path

----------------------------------------------------------------------------
(* The listener and the consumer under the whole application *)

\* C18, as claimed: the record the consumer creates for a request has its
\* monitoring loop started exactly when the request's enableLoop is true.
C18_LoopStartedIffRequested ==
  [][nextId' = nextId + 1
       => m_devicesMap'[GetMACFromPath(dmCur'.path)].looping = dmCur'.enableLoop]_vars

\* The item the listener is processing has a Device1 entry whose class
\* passes the filter
Accepted(item) ==
  \E interface \in DeviceEntries(item.interfacesAndProperties) :
     LET c == GetAndValidateClass(interface[2]) IN ~c.threw /\ c.valid

\* C20, as claimed: when the listener has processed an object-added signal,
\* it has called DeviceAdded(path, false) once if the signal has a Device1
\* entry whose class passes the filter, and otherwise it has called nothing
\* and raised nothing.
C20_OneAddPerAcceptedSignal ==
  [][omPc = "process" /\ omPc' # "process"
       => IF Accepted(omCur)
          THEN m_deviceQueue' = Push(m_deviceQueue,
                                     [path |-> omCur.path, enableLoop |-> FALSE])
          ELSE m_deviceQueue' = m_deviceQueue /\ ~terminated']_vars

----------------------------------------------------------------------------
(* One device: every client operation against a bus object that changes *)

NextPeer ==
  \/ Connect
  \/ Disconnect
  \/ \E uuid \in {"1101"} : ConnectProfile(uuid)
  \/ \E uuid \in {"1101"} : DisconnectProfile(uuid)
  \/ Pair
  \/ CancelPairing
  \/ GetProperties
  \/ BusChange
  \/ \E s \in FlagSignals : onPropertiesChanged(s)

SpecPeer == DeviceInit /\ [][NextPeer]_vars

\* C21, as claimed: ConnectProfile returns normally whatever the bus does.
C21_ConnectProfileNeverRaises ==
  [][Returned("ConnectProfile") => ~opLog'.raised]_vars

\* C22, as claimed: the snapshot GetProperties returns has, for each of the
\* 16 properties, the value the bus object has, and the cache is left as it
\* was.
C22_SnapshotIsBusState ==
  [][Returned("GetProperties") /\ ~opLog'.raised
       => /\ \A f \in Fields : opLog'.value["GetProperties"][f] = busProps[f]
          /\ m_properties' = m_properties]_vars

ClientOps ==
  {"Connect", "Disconnect", "ConnectProfile", "DisconnectProfile", "Pair",
   "CancelPairing", "GetProperties"}

\* C27, as claimed: no client operation of the device writes the cache.
C27_OnlyCallbacksWriteCache ==
  [][(\E op \in ClientOps : Returned(op)) => m_properties' = m_properties]_vars

----------------------------------------------------------------------------
(* One connection channel: failures of one direction, and the descriptors *)

\* C24: a step of the reader that clears its flag leaves the writer's flag
\* and position as they were, and a step of the writer that clears its flag
\* leaves the reader's; both flags are cleared in one step only by the
\* destructor; and with the other direction ended, a writer whose flag is
\* set goes on to its next write and a reader whose flag is set goes back
\* to its wait.
C24_FailureStopsOneDirection ==
  /\ [][/\ (m_readRunning /\ ~m_readRunning' /\ dtPc' = dtPc)
             => m_writeRunning' = m_writeRunning /\ wrPc' = wrPc
        /\ (m_writeRunning /\ ~m_writeRunning' /\ dtPc' = dtPc)
             => m_readRunning' = m_readRunning /\ rdPc' = rdPc
        /\ (m_readRunning /\ m_writeRunning /\ ~m_readRunning' /\ ~m_writeRunning')
             => dtPc = "none" /\ dtPc' = "write"]_vars
  /\ (rdPc = "done" /\ wrPc = "loop" /\ m_writeRunning /\ count < MaxWrites)
       ~> (wrPc = "write" \/ ~m_writeRunning)
  /\ (wrPc = "done" /\ rdPc = "loop" /\ m_readRunning)
       ~> (rdPc = "wait" \/ ~m_readRunning)

\* C24 witness: the reader has ended on a read of zero bytes, no shutdown
\* was asked for, and the writer, its flag set, is at a write after that of
\* its first turn
C24_Witness ==
  /\ rdPc = "done" /\ ~m_readRunning /\ sock = "eof"
  /\ dtPc = "none"
  /\ m_writeRunning /\ wrPc = "write" /\ count >= 1

\* C25, as claimed: once the reader and the writer have both ended without
\* a shutdown, the data descriptor and the pipe are eventually closed.
C25_BothFailedThenDestroyed ==
  (rdPc = "done" /\ wrPc = "done" /\ dtPc = "none") ~> (~fdOpen /\ ~pipeOpen)

\* C26, as claimed: a shutdown that has begun ends, whatever the workers
\* have done; at its end the flags are clear, the workers have ended and
\* the descriptors are closed; and no descriptor is closed a second time.
C26_ShutdownClosesOnce ==
  /\ (dtPc # "none") ~> (dtPc = "gone")
  /\ [](dtPc = "gone"
          => /\ ~m_readRunning /\ ~m_writeRunning
             /\ rdPc \in {"none", "done"} /\ wrPc \in {"none", "done"}
             /\ ~fdOpen /\ ~pipeOpen)
  /\ [](closed.fd <= 1 /\ closed.pipe <= 1)

----------------------------------------------------------------------------
(* One device statement by statement: the bus thread delivers property
   changes, a client thread calls ConnectProfile and GetProperties *)

dlFrame ==
  UNCHANGED <<m_deviceQueue, m_devicesMap, dmRunning, dmPc, dmLock, dmCur,
              dmLog, nextId, omVars, appPc, terminated, budget, obsVars, sigLog,
              lkOwner, mtxOwner, m_spp, clsVars, sppVars, busReachable,
              busProps, opLog>>

\* The bus thread enters a callback of the device: the assignment to
\* m_properties begins, no lock taken
DlCallbackBegin ==
  /\ At("bus", "idle")
  /\ devBudget > 0
  /\ devBudget' = devBudget - 1
  /\ Goto("bus", "inCache")
  /\ UNCHANGED <<m_properties, devOwner>>
  /\ dlFrame

\* The assignment of the callback ends
DlCallbackEnd(changed_properties) ==
  /\ At("bus", "inCache")
  /\ m_properties' = DispatchFrom([properties |-> m_properties, logs |-> <<>>,
                                   raised |-> FALSE],
                                  changed_properties, 1).properties
  /\ Goto("bus", "idle")
  /\ UNCHANGED <<devBudget, devOwner>>
  /\ dlFrame

\* Device::ConnectProfile: m_deviceProxy.GetUUIDs() begins, no lock taken
DlConnectProfileBegin ==
  /\ At("client", "idle")
  /\ devBudget > 0
  /\ devBudget' = devBudget - 1
  /\ Goto("client", "getUUIDs")
  /\ UNCHANGED <<m_properties, devOwner>>
  /\ dlFrame

\* GetUUIDs() returns and the assignment to m_properties.UUIDs begins, or
\* it raises and ConnectProfile is left
DlGetUUIDsEnd ==
  /\ At("client", "getUUIDs")
  /\ Goto("client", IF GetUUIDs.raised THEN "idle" ELSE "inCache")
  /\ UNCHANGED <<m_properties, devBudget, devOwner>>
  /\ dlFrame

\* The assignment ends; size() and PrintUUID() read the cache next
DlAssignEnd ==
  /\ At("client", "inCache")
  /\ m_properties' = [m_properties EXCEPT !.UUIDs = busProps["UUIDs"]]
  /\ Goto("client", "printUUID")
  /\ UNCHANGED <<devBudget, devOwner>>
  /\ dlFrame

\* PrintUUID() has read the cache; m_deviceProxy.ConnectProfile(uuid) begins
DlPrintUUIDEnd ==
  /\ At("client", "printUUID")
  /\ Goto("client", "callProfile")
  /\ UNCHANGED <<m_properties, devBudget, devOwner>>
  /\ dlFrame

\* The method call returns or its sdbus::Error is caught
DlCallProfileEnd ==
  /\ At("client", "callProfile")
  /\ Goto("client", "idle")
  /\ UNCHANGED <<m_properties, devBudget, devOwner>>
  /\ dlFrame

\* Device::GetProperties: lock_guard taken, m_deviceProxy.GetProperties()
\* begins
DlGetPropertiesBegin ==
  /\ At("client", "idle")
  /\ devBudget > 0
  /\ devOwner = "none"
  /\ devOwner' = "client"
  /\ devBudget' = devBudget - 1
  /\ Goto("client", "getProperties")
  /\ UNCHANGED m_properties
  /\ dlFrame

\* The getters have answered or one has raised; lock_guard released
DlGetPropertiesEnd ==
  /\ At("client", "getProperties")
  /\ devOwner' = "none"
  /\ Goto("client", "idle")
  /\ UNCHANGED <<m_properties, devBudget>>
  /\ dlFrame

NextDeviceLocks ==
  \/ DlCallbackBegin
  \/ \E s \in FlagSignals : DlCallbackEnd(s)
  \/ DlConnectProfileBegin
  \/ DlGetUUIDsEnd
  \/ DlAssignEnd
  \/ DlPrintUUIDEnd
  \/ DlCallProfileEnd
  \/ DlGetPropertiesBegin
  \/ DlGetPropertiesEnd

SpecDeviceLocks == DeviceInit /\ [][NextDeviceLocks]_vars

\* The threads inside a read or a write of m_properties
InCache == {t \in {"bus", "client"} : lkPc[t] \in {"inCache", "printUUID"}}

\* C28, as claimed: a thread that is inside a read or a write of the
\* property cache holds the mutex of the device, so the bus thread is never
\* inside a callback's write while another thread reads or writes the
\* cache.
C28_CacheOnlyUnderMutex ==
  /\ \A t \in InCache : devOwner = t
  /\ Cardinality(InCache) <= 1

\* The threads inside a blocking bus call: the consumer while DeviceProxy's
\* constructor reads the properties of the new device, the client while a
\* getter or a method call of the device proxy is out
InBusCall ==
  {t \in {"consumer"} :
     lkPc[t] = "construct" /\ ~ConstructionThrows(dmCur.path)}
  \cup {t \in {"client"} :
          lkPc[t] \in {"getUUIDs", "callProfile", "getProperties"}}

\* C23, as claimed: no thread that is inside a blocking bus call holds the
\* registry mutex or the mutex of a device.
C23_NoLockAcrossBusCall ==
  \A t \in InBusCall : lkOwner # t /\ devOwner # t

----------------------------------------------------------------------------
(* One connection channel: what ends the reader and what does not *)

\* C31: a return of epoll_wait with the pipe's event ends the reader; a read
\* of the data descriptor that returns 0 or -1 ends it; after a read that
\* returns bytes the reader is back at the test of its loop when its flag is
\* set, and from there it reaches epoll_wait again unless the flag is
\* cleared; and a reader in its loop with the pipe's event pending ends.
C31_ReaderExits ==
  /\ [][/\ (rdPc = "wait" /\ pipeEvt /\ ~pipeEvt') => rdPc' = "done"
        /\ (/\ rdPc = "wait" /\ rdPc' # "wait" /\ sock \in {"eof", "err"}
            /\ pipeEvt' = pipeEvt /\ sppBudget' = sppBudget) => rdPc' = "done"
        /\ (rdPc = "wait" /\ sock = "data" /\ sock' = "none")
             => rdPc' = (IF m_readRunning THEN "loop" ELSE "done")]_vars
  /\ (rdPc = "loop" /\ m_readRunning) ~> (rdPc = "wait" \/ ~m_readRunning)
  /\ (rdPc \in {"loop", "wait"} /\ pipeEvt) ~> (rdPc = "done")

\* C31 witness: the destructor's byte ended a reader while bytes of the
\* peer were waiting to be read, the peer having done all it does in a run
C31_Witness ==
  /\ rdPc = "done" /\ pipeReg /\ pipeBytes = 1 /\ ~pipeEvt
  /\ sock = "data" /\ sppBudget = 0

----------------------------------------------------------------------------
(* One connection channel: the tags of the writer's payloads.  A run starts
   with a channel just constructed, or with a writer that has written for
   long: its count stands short of a carry or of the maximum, its reader
   has ended on a read of zero bytes. *)

\* The tags written last by a writer that has written for long
TagStarts ==
  {<<0, 0, 0, Limb - 2>>, <<0, 0, Limb - 1, Limb - 2>>,
   <<0, Limb - 1, Limb - 1, Limb - 2>>, <<Limb - 2, Limb - 1, Limb - 1, Limb - 1>>,
   <<Limb - 1, Limb - 1, Limb - 1, Limb - 3>>,
   <<Limb - 1, Limb - 1, Limb - 1, Limb - 2>>}

InitLongRun ==
  /\ m_readRunning = FALSE /\ m_writeRunning = TRUE
  /\ rdPc = "done" /\ wrPc = "loop" /\ dtPc = "none"
  /\ pipeOk = TRUE /\ pipeBytes = 0 /\ pipeReg = TRUE /\ pipeEvt = FALSE
  /\ sock = "eof" /\ count = 0
  /\ pipeOpen = TRUE /\ fdOpen = TRUE
  /\ closed = [fd |-> 0, pipe |-> 0]
  /\ ping \in {[count |-> Incr(t), sent |-> TRUE, tag |-> t, written |-> TRUE] :
                t \in TagStarts}
  /\ sppBudget = MaxPeerEvents - 1

TagInit ==
  /\ InitSPP \/ InitLongRun
  /\ InitReg /\ Unobserved /\ IdleCls /\ IdleDev

SpecTag == TagInit /\ [][NextSPP]_vars

\* b is a + 1
Succ(a, b) ==
  \E k \in 1..4 :
    /\ \A i \in 1..(k - 1) : b[i] = a[i]
    /\ b[k] = a[k] + 1
    /\ \A i \in (k + 1)..4 : a[i] = Limb - 1 /\ b[i] = 0

\* a < b
Below(a, b) ==
  \E k \in 1..4 : a[k] < b[k] /\ \A i \in 1..(k - 1) : a[i] = b[i]

\* C32: the first payload of a writer has tag 0; each later payload has the
\* tag of the one before plus 1, a greater tag, except that the tag after
\* maximum - 1 is 0 (the count has reached the maximum and is reset); and a
\* writer whose write returned 0 or -1 ends without another write.
C32_TagsAndNoRetry ==
  /\ [][count' = count + 1 =>
          /\ ping'.sent
          /\ ~ping.sent => ping'.tag = Zero
          /\ ping.sent =>
               /\ ping.written
               /\ IF Succ(ping.tag, max_value)
                  THEN ping'.tag = Zero
                  ELSE Succ(ping.tag, ping'.tag) /\ Below(ping.tag, ping'.tag)]_vars
  /\ [][ping' # ping => count' = count + 1 \/ (wrPc = "none" /\ ~ping'.sent)]_vars
  /\ [](ping.sent /\ ~ping.written => wrPc = "done")
  /\ [][wrPc = "done" => wrPc' = "done" /\ count' = count]_vars

\* C32 witness: the second payload of a run has tag 0: the count had reached
\* the maximum
C32_Witness ==
  ping.sent /\ ping.tag = Zero /\ count = 2 /\ ping.count = <<0, 0, 0, 1>>

----------------------------------------------------------------------------
(* One connection channel: the order of the shutdown *)

ShutdownOrder ==
  {<<"none", "write">>, <<"write", "joinRead">>, <<"joinRead", "joinWrite">>,
   <<"joinWrite", "closePipe">>, <<"closePipe", "closeFd">>,
   <<"closeFd", "done">>, <<"done", "gone">>}

Ended(pc) == pc \in {"none", "done"}

\* C33: the destructor goes through its steps in one order: both flags
\* cleared, one byte written to the pipe, the reader joined, the writer
\* joined, the pipe closed, the data descriptor closed.  No close() is made
\* while a worker has not ended, and no worker takes a step after a close().
C33_ShutdownInOrder ==
  /\ [][dtPc' # dtPc =>
          /\ <<dtPc, dtPc'>> \in ShutdownOrder
          /\ dtPc = "none" => ~m_readRunning' /\ ~m_writeRunning'
          /\ dtPc = "write" /\ pipeOk => pipeBytes' = pipeBytes + 1
          /\ dtPc = "joinRead" => Ended(rdPc)
          /\ dtPc = "joinWrite" => Ended(wrPc)
          /\ dtPc = "closePipe" /\ pipeOk
               => closed'.pipe = closed.pipe + 1 /\ closed'.fd = 0
          /\ dtPc = "closeFd" => closed'.fd = closed.fd + 1]_vars
  /\ [][closed' # closed => Ended(rdPc) /\ Ended(wrPc)]_vars
  /\ [][closed.fd + closed.pipe > 0 => rdPc' = rdPc /\ wrPc' = wrPc]_vars

\* C33 witness: the shutdown of a channel whose workers ran, the writer
\* having written, has closed the pipe and the data descriptor
C33_Witness ==
  /\ dtPc = "done" /\ closed.pipe = 1 /\ closed.fd = 1
  /\ rdPc = "done" /\ wrPc = "done" /\ count >= 1

----------------------------------------------------------------------------
(* The application as wired, stopped.  The listener thread, the registry
   thread and the thread that runs the destructors each take a step when
   they have one to take. *)

ListenerThread == OmWake \/ OmDrop \/ OmForward \/ OmThrow

Destructors == OmDtor \/ OmJoin \/ DmDtor \/ DmJoin \/ RemoveDevices

SpecStop ==
  /\ Init
  /\ [][Next]_vars
  /\ WF_vars(ListenerThread) /\ WF_vars(DmThread) /\ WF_vars(Destructors)

\* C34, as claimed: once the destructor of the listener has cleared the flag
\* and notified, its join returns; once the destructor of the registry has
\* cleared the flag and notified, its join returns.
C34_StopTerminates ==
  /\ (appPc = "omJoin") ~> (appPc = "dmDtor")
  /\ (appPc = "dmJoin") ~> (appPc = "removeDevices")

----------------------------------------------------------------------------
(* The order of the teardown *)

TeardownOrder ==
  {<<"running", "omDtor">>, <<"omDtor", "omJoin">>, <<"omJoin", "dmDtor">>,
   <<"dmDtor", "dmJoin">>, <<"dmJoin", "removeDevices">>,
   <<"removeDevices", "done">>}

RegistryStopping == appPc \in {"dmJoin", "removeDevices", "done"}

Sweeping == appPc \in {"removeDevices", "done"}

\* C35: the teardown goes through its steps in one order; when the registry
\* is told to stop, the listener is unsubscribed and its thread has ended;
\* when RemoveDevices runs, the registry thread has ended; and from then on
\* no request is dequeued and no device is constructed.
C35_TeardownInOrder ==
  /\ [][appPc' # appPc => <<appPc, appPc'>> \in TeardownOrder]_vars
  /\ [](RegistryStopping \/ ~dmRunning => ~omRegistered /\ omPc = "done")
  /\ [](Sweeping => dmPc = "done")
  /\ [][Sweeping => /\ nextId' = nextId
                    /\ m_deviceQueue' = m_deviceQueue
                    /\ deqHist' = deqHist
                    /\ dmCur' = dmCur]_vars

\* C35 witness: the sweep has run over a registry that held a device, with
\* a request still in the add-queue at the end
C35_Witness ==
  /\ appPc = "done" /\ nextId >= 1 /\ Len(sweepLog) >= 1
  /\ m_deviceQueue # <<>>

----------------------------------------------------------------------------
(* The bus thread delivers added and removed signals for two devices; the
   listener thread and the registry thread run; what was delivered last for
   each path is written down *)

OrderPaths == {PathA0, PathB0}

OrderInit == InitReg /\ Observed /\ IdleCls /\ IdleDev /\ IdleSpp

NextOrder ==
  \/ \E p \in OrderPaths, im \in IfaceMaps : onInterfacesAdded(p, im)
  \/ \E p \in OrderPaths, il \in IfaceLists : onInterfacesRemoved(p, il)
  \/ OmWake
  \/ OmDrop
  \/ OmForward
  \/ OmThrow
  \/ DmThread

SpecOrder == OrderInit /\ [][NextOrder]_vars

\* Nothing is queued and both threads are back at their wait
Drained ==
  /\ m_interface_added_queue = <<>> /\ omPc = "wait"
  /\ m_deviceQueue = <<>> /\ dmPc = "wait"

\* The signal delivered last for a path is a removal of its Device1
\* interface
RemovedLast(p) ==
  \E i \in 1..Len(sigLog) :
    /\ sigLog[i].path = p /\ sigLog[i].kind = "removed"
    /\ \A j \in (i + 1)..Len(sigLog) : sigLog[j].path # p

\* C36, as claimed: when the signal delivered last for a path is a removal
\* of its Device1 interface and both queues are drained, the registry has
\* no record under the identity of the path.
C36_RemovalAfterAddWins ==
  \A p \in OrderPaths :
    (RemovedLast(p) /\ Drained) => GetMACFromPath(p) \notin DOMAIN m_devicesMap

----------------------------------------------------------------------------
(* The construction of one device, and what its client sees next *)

Constructed == opLog.op # "none"

\* Device::Device.  The members are initialised in the order of their
\* declaration: m_deviceProxy first, whose constructor reads the properties
\* from the bus and hands them to Device::PropertiesChanged, which assigns
\* them to m_properties before m_properties has been constructed; then
\* m_properties(), which value-initialises it.  The assignment to an object
\* that is not yet constructed is undefined: it crashes, or it goes through
\* and the value-initialisation follows.  A getter that raises is caught in
\* the proxy's constructor and nothing is handed over.
DeviceCtor ==
  /\ devBudget > 0 /\ ~Constructed
  /\ LET r == ProxyGetProperties
     IN  \E crashed \in (IF r.raised THEN {FALSE} ELSE BOOLEAN) :
           Return("Device",
                  IF r.raised THEN <<>> ELSE ("PropertiesChanged" :> r.properties),
                  r.calls, IF r.raised THEN <<"Error">> ELSE <<>>, crashed,
                  ValueInit)

NextConstruct ==
  \/ DeviceCtor
  \/ BusChange
  \/ Constructed /\ ~opLog.raised /\ GetProperties
  \/ Constructed /\ ~opLog.raised /\ \E s \in FlagSignals : onPropertiesChanged(s)

SpecConstruct == DeviceInit /\ [][NextConstruct]_vars

\* C37, as claimed: when the construction of a device has handed a snapshot
\* to PropertiesChanged and has returned, the cache is that snapshot.
C37_CacheIsSnapshotAfterCtor ==
  [][(Returned("Device") /\ ~opLog'.raised /\ opLog'.logs = <<>>)
       => m_properties' = opLog'.value["PropertiesChanged"]]_vars

----------------------------------------------------------------------------
(* Every producer of add requests: the object-added signals through the
   listener, and the pairing agent; the signals delivered are written down *)

FilterInit == InitReg /\ Observed /\ IdleCls /\ IdleDev /\ IdleSpp

NextFilter ==
  \/ \E p \in OrderPaths, im \in IfaceMaps : onInterfacesAdded(p, im)
  \/ \E p \in OrderPaths : RequestConfirmation(p)
  \/ OmWake
  \/ OmDrop
  \/ OmForward
  \/ OmThrow
  \/ DmThread

SpecFilter == FilterInit /\ [][NextFilter]_vars

\* C38, as claimed: every record of the registry has the path of an
\* object-added signal that was delivered with a Device1 entry whose class
\* passes the filter.
C38_EveryRecordPassedFilter ==
  \A mac \in DOMAIN m_devicesMap :
    \E i \in 1..Len(sigLog) :
      /\ sigLog[i].kind = "added"
      /\ sigLog[i].path = m_devicesMap[mac].path
      /\ Accepted(sigLog[i])

----------------------------------------------------------------------------
(* The four mutexes acquisition by acquisition: the bus thread in
   onInterfacesAdded and onInterfacesRemoved (one thread: it is in one of
   them at a time), the listener thread in
   ObjectManagerProxy::RunEventLoop, the registry thread in
   DeviceManager::RunEventLoop, a client thread in the registry's and a
   device's getters, and the thread that runs the destructors *)

Mutexes == {"m_obj_manager_mutex", "m_deviceManagerMutex", "m_deviceMutex",
            "m_sppMutex"}

LockingThreads == DOMAIN lkPc

Owner(mutex) ==
  CASE mutex = "m_deviceManagerMutex" -> lkOwner
    [] mutex = "m_deviceMutex" -> devOwner
    [] OTHER -> mtxOwner[mutex]

HeldBy(thread) == {mutex \in Mutexes : Owner(mutex) = thread}

\* std::lock_guard's constructor, unique_lock's constructor and lock(): the
\* caller goes on when no thread owns the mutex
Take(thread, mutex) ==
  /\ Owner(mutex) = "none"
  /\ lkOwner' = IF mutex = "m_deviceManagerMutex" THEN thread ELSE lkOwner
  /\ devOwner' = IF mutex = "m_deviceMutex" THEN thread ELSE devOwner
  /\ mtxOwner' = IF mutex \in DOMAIN mtxOwner
                 THEN [mtxOwner EXCEPT ![mutex] = thread] ELSE mtxOwner

\* the destructor of the lock object, unlock(), or the wait that blocks
Drop(mutex) ==
  /\ lkOwner' = IF mutex = "m_deviceManagerMutex" THEN "none" ELSE lkOwner
  /\ devOwner' = IF mutex = "m_deviceMutex" THEN "none" ELSE devOwner
  /\ mtxOwner' = IF mutex \in DOMAIN mtxOwner
                 THEN [mtxOwner EXCEPT ![mutex] = "none"] ELSE mtxOwner

mxFrame ==
  UNCHANGED <<dmPc, dmLock, dmCur, dmLog, nextId, omPc, appPc,
              obsVars, sigLog, clsVars, devVars, rdPc, wrPc, dtPc, pipeOk,
              pipeBytes, pipeReg, pipeEvt, sock, count, ping, pipeOpen, fdOpen,
              closed, sppBudget, m_spp>>

\* onInterfacesAdded: lock_guard taken, push() begins
MxAddedEnter ==
  /\ At("bus", "idle") /\ omRegistered
  /\ budget > 0 /\ Len(m_interface_added_queue) < MaxQueue
  /\ Take("bus", "m_obj_manager_mutex")
  /\ Goto("bus", "onInterfacesAdded")
  /\ UNCHANGED <<m_interface_added_queue, m_deviceQueue, m_devicesMap, omCur,
                 omRunning, omRegistered, dmRunning, terminated, budget, m_readRunning,
                 m_writeRunning>>
  /\ mxFrame

\* onInterfacesAdded: push() ends, notify_one(), lock_guard released
MxAddedLeave(objectPath, interfacesAndProperties) ==
  /\ At("bus", "onInterfacesAdded")
  /\ m_interface_added_queue' =
       Append(m_interface_added_queue,
              [path |-> objectPath,
               interfacesAndProperties |-> interfacesAndProperties])
  /\ budget' = budget - 1
  /\ Drop("m_obj_manager_mutex")
  /\ Goto("bus", "idle")
  /\ UNCHANGED <<m_deviceQueue, m_devicesMap, omCur, omRunning, omRegistered, dmRunning,
                 terminated, m_readRunning, m_writeRunning>>
  /\ mxFrame

\* ObjectManagerProxy::RunEventLoop: while (m_running)
MxListenerOuter ==
  /\ At("listener", "outer")
  /\ Goto("listener", IF omRunning THEN "lock" ELSE "done")
  /\ UNCHANGED <<m_interface_added_queue, m_deviceQueue, m_devicesMap, omCur,
                 omRunning, omRegistered, dmRunning, terminated, budget, m_readRunning,
                 m_writeRunning, lkOwner, devOwner, mtxOwner>>
  /\ mxFrame

\* The listener takes its mutex: the unique_lock of line 71, the blocked
\* wait waking up, or lock.lock() of line 91
MxListenerLock ==
  /\ \/ At("listener", "lock") /\ Goto("listener", "wait")
     \/ /\ At("listener", "blocked")
        /\ ~omRunning \/ m_interface_added_queue # <<>>
        /\ Goto("listener", "wait")
     \/ At("listener", "relock") /\ Goto("listener", "scopeEnd")
  /\ Take("listener", "m_obj_manager_mutex")
  /\ UNCHANGED <<m_interface_added_queue, m_deviceQueue, m_devicesMap, omCur,
                 omRunning, omRegistered, dmRunning, terminated, budget, m_readRunning,
                 m_writeRunning>>
  /\ mxFrame

\* The listener as it would be without lock.unlock() on line 81
MxListenerWaitKeepsLock ==
  /\ At("listener", "wait")
  /\ IF ~omRunning
     THEN /\ Goto("listener", "done")
          /\ Drop("m_obj_manager_mutex")
          /\ UNCHANGED <<m_interface_added_queue, omCur>>
     ELSE IF m_interface_added_queue # <<>>
     THEN /\ omCur' = Head(m_interface_added_queue)
          /\ m_interface_added_queue' = Tail(m_interface_added_queue)
          /\ Goto("listener", "process")
          /\ UNCHANGED <<lkOwner, devOwner, mtxOwner>>
     ELSE /\ Goto("listener", "blocked")
          /\ Drop("m_obj_manager_mutex")
          /\ UNCHANGED <<m_interface_added_queue, omCur>>
  /\ UNCHANGED <<m_deviceQueue, m_devicesMap, omRunning, omRegistered, dmRunning,
                 terminated, budget, m_readRunning, m_writeRunning>>
  /\ mxFrame

\* m_queueCV.wait(lock, predicate) with the mutex held, then lines 74-81:
\* out of the loop, an item popped and lock.unlock(), or blocked with the
\* mutex released
MxListenerWait ==
  /\ At("listener", "wait")
  /\ IF ~omRunning
     THEN /\ Goto("listener", "done")
          /\ UNCHANGED <<m_interface_added_queue, omCur>>
     ELSE IF m_interface_added_queue # <<>>
     THEN /\ omCur' = Head(m_interface_added_queue)
          /\ m_interface_added_queue' = Tail(m_interface_added_queue)
          /\ Goto("listener", "process")
     ELSE /\ Goto("listener", "blocked")
          /\ UNCHANGED <<m_interface_added_queue, omCur>>
  /\ Drop("m_obj_manager_mutex")
  /\ UNCHANGED <<m_deviceQueue, m_devicesMap, omRunning, omRegistered, dmRunning, terminated,
                 budget, m_readRunning, m_writeRunning>>
  /\ mxFrame

\* Lines 82-90 with the listener mutex released: Variant::get throws, or the
\* class is accepted and DeviceAdded takes the registry's lock_guard, or
\* nothing is called
MxListenerProcess ==
  /\ At("listener", "process")
  /\ LET classes == {GetAndValidateClass(interface[2]) :
                       interface \in DeviceEntries(omCur.interfacesAndProperties)}
     IN  IF \E c \in classes : c.threw
         THEN /\ terminated' = TRUE
              /\ Goto("listener", "done")
              /\ UNCHANGED <<lkOwner, devOwner, mtxOwner>>
         ELSE IF \E c \in classes : c.valid
         THEN /\ Take("listener", "m_deviceManagerMutex")
              /\ Goto("listener", "DeviceAdded")
              /\ UNCHANGED terminated
         ELSE /\ Goto("listener", "relock")
              /\ UNCHANGED <<terminated, lkOwner, devOwner, mtxOwner>>
  /\ UNCHANGED <<m_interface_added_queue, m_deviceQueue, m_devicesMap, omCur,
                 omRunning, omRegistered, dmRunning, budget, m_readRunning, m_writeRunning>>
  /\ mxFrame

\* DeviceAdded: push() ends, notify_one(), lock_guard released
MxListenerPushed ==
  /\ At("listener", "DeviceAdded")
  /\ m_deviceQueue' = Push(m_deviceQueue,
                           [path |-> omCur.path, enableLoop |-> FALSE])
  /\ Drop("m_deviceManagerMutex")
  /\ Goto("listener", "relock")
  /\ UNCHANGED <<m_interface_added_queue, m_devicesMap, omCur, omRunning, omRegistered,
                 dmRunning, terminated, budget, m_readRunning, m_writeRunning>>
  /\ mxFrame

\* The end of the loop body: the unique_lock is destroyed
MxListenerScopeEnd ==
  /\ At("listener", "scopeEnd")
  /\ Drop("m_obj_manager_mutex")
  /\ Goto("listener", "outer")
  /\ UNCHANGED <<m_interface_added_queue, m_deviceQueue, m_devicesMap, omCur,
                 omRunning, omRegistered, dmRunning, terminated, budget, m_readRunning,
                 m_writeRunning>>
  /\ mxFrame

\* The lock_guard scopes of a client thread: DeviceManager::GetDevice and
\* GetDevicesMAC and, on a device it has looked up, Device::GetProperties
ClientScopes ==
  {[scope |-> "GetDevice", mutex |-> "m_deviceManagerMutex"],
   [scope |-> "GetDevicesMAC", mutex |-> "m_deviceManagerMutex"],
   [scope |-> "GetProperties", mutex |-> "m_deviceMutex"]}

MxClientEnter(s) ==
  /\ At("client", "idle")
  /\ s.scope = "GetProperties" => DOMAIN m_devicesMap # {}
  /\ Take("client", s.mutex)
  /\ Goto("client", s.scope)
  /\ UNCHANGED <<m_interface_added_queue, m_deviceQueue, m_devicesMap, omCur,
                 omRunning, omRegistered, dmRunning, terminated, budget, m_readRunning,
                 m_writeRunning>>
  /\ mxFrame

MxClientLeave(s) ==
  /\ At("client", s.scope)
  /\ Drop(s.mutex)
  /\ Goto("client", "idle")
  /\ UNCHANGED <<m_interface_added_queue, m_deviceQueue, m_devicesMap, omCur,
                 omRunning, omRegistered, dmRunning, terminated, budget, m_readRunning,
                 m_writeRunning>>
  /\ mxFrame

\* The lock_guard scopes of the destructors, in the order of
\* Application's members: the channel, the listener (whose thread is joined
\* next), the registry (whose thread is joined next) and RemoveDevices'
\* call of Device::GetProperties
StopperScopes ==
  <<[scope |-> "~SPPHandler", mutex |-> "m_sppMutex", from |-> "idle",
     to |-> "channelStopped"],
    [scope |-> "~ObjectManagerProxy", mutex |-> "m_obj_manager_mutex",
     from |-> "channelStopped", to |-> "listenerStopped"],
    [scope |-> "~DeviceManager", mutex |-> "m_deviceManagerMutex",
     from |-> "listenerStopped", to |-> "registryStopped"],
    [scope |-> "RemoveDevices", mutex |-> "m_deviceMutex",
     from |-> "registryStopped", to |-> "registryStopped"]>>

\* unregisterProxy() comes before the listener's lock_guard
MxStopperEnter(i) ==
  LET s == StopperScopes[i]
  IN  /\ At("stopper", s.from)
      /\ s.scope = "~DeviceManager" => At("listener", "done")
      /\ s.scope = "RemoveDevices" =>
           At("consumer", "done") /\ DOMAIN m_devicesMap # {}
      /\ omRegistered' = (omRegistered /\ s.scope # "~ObjectManagerProxy")
      /\ Take("stopper", s.mutex)
      /\ Goto("stopper", s.scope)
      /\ UNCHANGED <<m_interface_added_queue, m_deviceQueue, m_devicesMap,
                     omCur, omRunning, dmRunning, terminated, budget,
                     m_readRunning, m_writeRunning>>
      /\ mxFrame

MxStopperLeave(i) ==
  LET s == StopperScopes[i]
  IN  /\ At("stopper", s.scope)
      /\ m_readRunning' = IF s.scope = "~SPPHandler" THEN FALSE ELSE m_readRunning
      /\ m_writeRunning' = IF s.scope = "~SPPHandler" THEN FALSE ELSE m_writeRunning
      /\ omRunning' = IF s.scope = "~ObjectManagerProxy" THEN FALSE ELSE omRunning
      /\ dmRunning' = IF s.scope = "~DeviceManager" THEN FALSE ELSE dmRunning
      /\ m_devicesMap' =
           IF s.scope = "RemoveDevices" /\ DOMAIN m_devicesMap # {}
           THEN Erase(m_devicesMap,
                      CHOOSE k \in DOMAIN m_devicesMap :
                        \A other \in DOMAIN m_devicesMap : ~Less(other, k))
           ELSE m_devicesMap
      /\ Drop(s.mutex)
      /\ Goto("stopper", s.to)
      /\ UNCHANGED <<m_interface_added_queue, m_deviceQueue, omCur,
                     omRegistered, terminated, budget>>
      /\ mxFrame

MutexPaths == {PathA0}

MutexIfaces ==
  {{<<DEVICE_INTERFACE, {<<"Class", U32(516)>>}>>},
   {<<DEVICE_INTERFACE, {<<"Class", StringVariant>>}>>},
   {<<BATTERY_INTERFACE, {}>>}}

MutexInit == InitReg /\ Unobserved /\ IdleCls /\ IdleDev /\ IdleSpp

NextMutex ==
  \/ At("remover", "idle") /\ MxAddedEnter
  \/ \E p \in MutexPaths, im \in MutexIfaces : MxAddedLeave(p, im)
  \/ MxListenerOuter
  \/ MxListenerLock
  \/ MxListenerWait
  \/ MxListenerProcess
  \/ MxListenerPushed
  \/ MxListenerScopeEnd
  \/ LkOuter
  \/ LkLock
  \/ LkWait
  \/ LkQueueBegin
  \/ LkQueueEnd
  \/ LkMapEnd
  \/ LkConstructEnd
  \/ omRegistered /\ At("bus", "idle") /\ LkRemoveBegin
  \/ \E p \in MutexPaths : LkRemoveEnd(p)
  \/ \E s \in ClientScopes : MxClientEnter(s)
  \/ \E s \in ClientScopes : MxClientLeave(s)
  \/ \E i \in DOMAIN StopperScopes : MxStopperEnter(i)
  \/ \E i \in DOMAIN StopperScopes : MxStopperLeave(i)

SpecMutex == MutexInit /\ [][NextMutex]_vars

\* C39: no thread acquires one of the listener mutex, the registry mutex, a
\* device mutex and the channel mutex while it holds another of them, so no
\* thread ever holds two and no cycle of threads waiting for each other's
\* mutex can form
C39_NoNestedAcquisition ==
  /\ [](\A thread \in LockingThreads : Cardinality(HeldBy(thread)) <= 1)
  /\ [][\A thread \in LockingThreads : \A mutex \in Mutexes :
          (Owner(mutex)' = thread /\ Owner(mutex) # thread)
            => HeldBy(thread) = {}]_vars

\* C39: the listener is inside DeviceAdded with the registry mutex, which it
\* took after unlocking its own, while a client holds a device's mutex and
\* the destructor of the channel holds the channel's
C39_Witness ==
  /\ At("listener", "DeviceAdded") /\ HeldBy("listener") = {"m_deviceManagerMutex"}
  /\ HeldBy("client") = {"m_deviceMutex"}
  /\ HeldBy("stopper") = {"m_sppMutex"}

----------------------------------------------------------------------------
(* ProfileProxy::NewConnection on the bus thread: std::make_unique
   constructs the new channel, the assignment to m_spp deletes the channel
   held before, and StartOperations starts the threads of the new one.  The
   channel variables describe the channel m_spp holds. *)

otherThanSpp ==
  <<dmVars, omVars, appPc, terminated, budget, obsVars, sigLog, lkVars,
    clsVars, devVars>>

\* Line 38, right-hand side: SPPHandler's constructor has run, pipe() has
\* succeeded or failed.  The call before has returned.
NcMakeUnique ==
  /\ ~m_spp.made /\ m_spp.connections < MaxConnections
  /\ m_spp.held => rdPc # "none"
  /\ \E ok \in BOOLEAN :
       m_spp' = [m_spp EXCEPT !.made = TRUE, !.pipeOk = ok,
                              !.connections = @ + 1]
  /\ UNCHANGED <<otherThanSpp, sppVars>>

\* Line 38, the assignment: unique_ptr deletes the channel it held, whose
\* destructor begins
NcDelete ==
  /\ m_spp.made /\ m_spp.held
  /\ DtFlags

\* m_spp holds the new channel, as its constructor left it
Install ==
  /\ m_spp' = [m_spp EXCEPT !.held = TRUE, !.made = FALSE, !.pipeOk = FALSE,
                            !.replaced = IF m_spp.held THEN @ + 1 ELSE @]
  /\ m_readRunning' = TRUE /\ m_writeRunning' = TRUE
  /\ rdPc' = "none" /\ wrPc' = "none" /\ dtPc' = "none"
  /\ pipeOk' = m_spp.pipeOk /\ pipeOpen' = m_spp.pipeOk
  /\ pipeBytes' = 0 /\ pipeReg' = FALSE /\ pipeEvt' = FALSE
  /\ sock' = "none" /\ fdOpen' = TRUE
  /\ closed' = [fd |-> 0, pipe |-> 0]
  /\ UNCHANGED <<count, ping, sppBudget, otherThanSpp>>

\* An assignment that releases the old channel instead of deleting it
NcAssignedWithoutDelete ==
  /\ m_spp.made
  /\ Install

\* Line 38, the assignment has ended: the old channel, if there was one, is
\* destroyed, members included
NcAssigned ==
  /\ m_spp.made
  /\ m_spp.held => dtPc = "gone"
  /\ Install

\* Lines 39-40: m_spp->StartOperations()
NcStartOperations ==
  /\ m_spp.held /\ ~m_spp.made
  /\ StartOperations

\* The profile before the first NewConnection: m_spp is nullptr, the
\* peer's events are still to come
InitProfile ==
  /\ m_readRunning = FALSE /\ m_writeRunning = FALSE
  /\ rdPc = "none" /\ wrPc = "none" /\ dtPc = "none"
  /\ pipeOk = FALSE /\ pipeBytes = 0 /\ pipeReg = FALSE /\ pipeEvt = FALSE
  /\ sock = "none" /\ count = 0 /\ pipeOpen = FALSE /\ fdOpen = FALSE
  /\ closed = [fd |-> 0, pipe |-> 0]
  /\ ping = NoPing
  /\ sppBudget = MaxPeerEvents

ProfileInit == InitProfile /\ InitReg /\ Unobserved /\ IdleCls /\ IdleDev

NextProfile ==
  \/ NcMakeUnique
  \/ NcDelete
  \/ NcAssigned
  \/ NcStartOperations
  \/ RdSetup
  \/ RdCheck
  \/ RdPipeEvent
  \/ RdDataEvent
  \/ RdInterrupted
  \/ WrCheck
  \/ WrWrite
  \/ WrSleep
  \/ PeerEvent
  \/ DtWrite
  \/ DtJoinRead
  \/ DtJoinWrite
  \/ ClosePipe
  \/ CloseFD
  \/ DtMembers

SpecProfile == ProfileInit /\ [][NextProfile]_vars

\* The threads of the channel m_spp holds that have been started and have
\* not returned
RunningThreads ==
  {t \in {"ReadBuffer", "WriteBuffer"} :
     IF t = "ReadBuffer" THEN rdPc \notin {"none", "done"}
                         ELSE wrPc \notin {"none", "done"}}

\* C40: when NewConnection replaces the channel a profile holds, both
\* threads of the old channel have returned and been joined and its pipe and
\* data descriptor are closed before m_spp holds the new channel, whose
\* threads are started only after that; so the threads of two channels never
\* run at once
C40_OldChannelDownBeforeNewStarts ==
  /\ [][(m_spp.made /\ ~m_spp'.made /\ m_spp.held)
          => /\ RunningThreads = {}
             /\ dtPc = "gone"
             /\ ~fdOpen /\ ~pipeOpen
             /\ closed.fd >= 1
             /\ RunningThreads' = {}]_vars
  /\ [](m_spp.made => (RunningThreads # {} => m_spp.held /\ dtPc # "gone"))

\* C40: a channel whose threads ran has been replaced, and both threads of
\* the new channel are running
C40_Witness ==
  /\ m_spp.replaced = 1 /\ m_spp.held /\ ~m_spp.made
  /\ RunningThreads = {"ReadBuffer", "WriteBuffer"}
  /\ count >= 1
  /\ fdOpen /\ dtPc = "none"

====
